---- MODULE Spec2Model ----
(***************************************************************************)
(* Workflow execution engine of backend/app/services/workflow_engine.py    *)
(* (WorkflowValidator, WorkflowEngine) together with the execute endpoint  *)
(* of backend/app/api/workflows.py that drives it.                         *)
(*                                                                         *)
(* A definition is a JSON document, modelled as a record                   *)
(* [is_none, keys, nodes, edges]: is_none says the value is Python's None, *)
(* keys is the set of keys the dict has, nodes is a sequence of [id, type] *)
(* and edges a sequence of [source, target].  Node ids are small integers. *)
(*                                                                         *)
(* The variables workflow, executions and logs are the stored rows.  The   *)
(* session is a collaborator of the engine: db.add and db.commit are taken *)
(* to store what the code assigned before them.  A run is cut into steps   *)
(* at its commits and at the await of a node handler.                      *)
(***************************************************************************)
EXTENDS Integers, Sequences, FiniteSets, TLC

(* ---------------- bounds of the model ---------------- *)
MaxEdges == 2
MaxExecs == 2
MaxCalls == 2
MaxText == 6
MaxPieces == 3
MaxDepth == 2
MaxRuns == 1
MaxVersion == 3
MaxRequests == 4

(* ---------------- small input sets ---------------- *)
NodeIds == {1, 2, 3}
ValidatorKinds == {"start", "end", "string"}

\* a definition declares at most as many nodes as there are ids (ids may repeat)
MaxNodes == Cardinality(NodeIds)

None == "None"

\* a definition dict with both keys, as WorkflowDefinition.model_dump() gives
Def(nodes, edges) ==
    [is_none |-> FALSE, keys |-> {"nodes", "edges"}, nodes |-> nodes, edges |-> edges]

\* a definition column that is NULL
NoneDefinition == [is_none |-> TRUE, keys |-> {}, nodes |-> <<>>, edges |-> <<>>]

\* Python truthiness of a definition: None and {} are falsy
Falsy(definition) == definition.is_none \/ definition.keys = {}

\* definition.get("nodes", []) and definition.get("edges", [])
GetNodes(definition) == IF "nodes" \in definition.keys THEN definition.nodes ELSE <<>>
GetEdges(definition) == IF "edges" \in definition.keys THEN definition.edges ELSE <<>>

(* ---------------- sequence helpers ---------------- *)
SeqsUpTo(S, n) == UNION {[1..k -> S] : k \in 0..n}

Range(s) == {s[i] : i \in DOMAIN s}

Last(s) == s[Len(s)]
Front(s) == SubSeq(s, 1, Len(s) - 1)

RECURSIVE Dedup(_)
\* keys of a dict built from a sequence of ids: first occurrence order
Dedup(s) ==
    IF s = <<>> THEN <<>>
    ELSE LET r == Dedup(SubSeq(s, 1, Len(s) - 1))
             x == s[Len(s)]
         IN IF x \in Range(r) THEN r ELSE Append(r, x)

(* ---------------- WorkflowValidator ---------------- *)
NodeIdSeq(nodes) == [i \in DOMAIN nodes |-> nodes[i].id]

RECURSIVE AdjTargets(_, _)
\* adj[source].append(target) over the edges, in edge order, for one source
AdjTargets(edges, src) ==
    IF edges = <<>> THEN <<>>
    ELSE LET rest == AdjTargets(SubSeq(edges, 1, Len(edges) - 1), src)
             e == edges[Len(edges)]
         IN IF e.source = src THEN Append(rest, e.target) ELSE rest

\* adj = {node.id: []}; for edge: if source in adj: adj[source].append(target)
BuildAdj(nodes, edges) ==
    [n \in Range(NodeIdSeq(nodes)) |-> AdjTargets(edges, n)]

\* adj.get(node_id, [])
AdjGet(adj, n) == IF n \in DOMAIN adj THEN adj[n] ELSE <<>>

RECURSIVE has_cycle(_, _, _, _)
RECURSIVE has_cycle_loop(_, _, _, _, _)
\* the nested DFS of _is_dag; the state is [found, visited, rec_stack]
has_cycle(adj, node_id, visited, rec_stack) ==
    has_cycle_loop(adj, node_id, 1, visited \cup {node_id}, rec_stack \cup {node_id})

\* the DFS loop without rec_stack.remove(node_id) on return
has_cycle_loop_keep(adj, node_id, i, visited, rec_stack) ==
    LET nbrs == AdjGet(adj, node_id)
    IN IF i > Len(nbrs)
       THEN [found |-> FALSE, visited |-> visited, rec_stack |-> rec_stack]
       ELSE LET neighbor == nbrs[i]
            IN IF neighbor \notin visited
               THEN LET r == has_cycle(adj, neighbor, visited, rec_stack)
                    IN IF r.found THEN r
                       ELSE has_cycle_loop(adj, node_id, i + 1, r.visited, r.rec_stack)
               ELSE IF neighbor \in rec_stack
                    THEN [found |-> TRUE, visited |-> visited, rec_stack |-> rec_stack]
                    ELSE has_cycle_loop(adj, node_id, i + 1, visited, rec_stack)

has_cycle_loop(adj, node_id, i, visited, rec_stack) ==
    LET nbrs == AdjGet(adj, node_id)
    IN IF i > Len(nbrs)
       THEN [found |-> FALSE, visited |-> visited, rec_stack |-> rec_stack \ {node_id}]
       ELSE LET neighbor == nbrs[i]
            IN IF neighbor \notin visited
               THEN LET r == has_cycle(adj, neighbor, visited, rec_stack)
                    IN IF r.found THEN r
                       ELSE has_cycle_loop(adj, node_id, i + 1, r.visited, r.rec_stack)
               ELSE IF neighbor \in rec_stack
                    THEN [found |-> TRUE, visited |-> visited, rec_stack |-> rec_stack]
                    ELSE has_cycle_loop(adj, node_id, i + 1, visited, rec_stack)

RECURSIVE is_dag_loop(_, _, _, _, _)
is_dag_loop(adj, nodes, i, visited, rec_stack) ==
    IF i > Len(nodes) THEN TRUE
    ELSE IF nodes[i].id \notin visited
         THEN LET r == has_cycle(adj, nodes[i].id, visited, rec_stack)
              IN IF r.found THEN FALSE
                 ELSE is_dag_loop(adj, nodes, i + 1, r.visited, r.rec_stack)
         ELSE is_dag_loop(adj, nodes, i + 1, visited, rec_stack)

\* a validator that takes every graph for acyclic
is_dag_lax(nodes, edges) == TRUE

_is_dag(nodes, edges) == is_dag_loop(BuildAdj(nodes, edges), nodes, 1, {}, {})

RECURSIVE bfs_loop(_, _, _)
RECURSIVE bfs_neighbors(_, _, _, _)
\* for neighbor in adj.get(current, []): if not visited: add, enqueue
bfs_neighbors(nbrs, i, visited, queue) ==
    IF i > Len(nbrs) THEN [visited |-> visited, queue |-> queue]
    ELSE IF nbrs[i] \notin visited
         THEN bfs_neighbors(nbrs, i + 1, visited \cup {nbrs[i]}, Append(queue, nbrs[i]))
         ELSE bfs_neighbors(nbrs, i + 1, visited, queue)

bfs_loop(adj, visited, queue) ==
    IF queue = <<>> THEN visited
    ELSE LET r == bfs_neighbors(AdjGet(adj, Head(queue)), 1, visited, Tail(queue))
         IN bfs_loop(adj, r.visited, r.queue)

_all_reachable(nodes, edges, start_id) ==
    Cardinality(bfs_loop(BuildAdj(nodes, edges), {start_id}, <<start_id>>)) = Len(nodes)

ErrEmptyDefinition == [msg |-> "definition empty", arg |-> 0]
ErrNoNodes == [msg |-> "at least one node required", arg |-> 0]
ErrNoStart == [msg |-> "start node required", arg |-> 0]
ErrManyStart == [msg |-> "only one start node", arg |-> 0]
ErrDupId == [msg |-> "node ids must be unique", arg |-> 0]
ErrSource(s) == [msg |-> "edge source missing", arg |-> s]
ErrTarget(t) == [msg |-> "edge target missing", arg |-> t]
ErrCycle == [msg |-> "cyclic dependency", arg |-> 0]
WarnNoEnd == [msg |-> "end node recommended", arg |-> 0]
WarnUnreachable == [msg |-> "unreachable nodes", arg |-> 0]

RECURSIVE EdgeErrorsPerEdge(_, _)
\* the edge check reporting at most one error per edge (elif on the target)
EdgeErrorsPerEdge(edges, node_id_set) ==
    IF edges = <<>> THEN <<>>
    ELSE LET e == Head(edges)
         IN (IF e.source \notin node_id_set THEN <<ErrSource(e.source)>>
             ELSE IF e.target \notin node_id_set THEN <<ErrTarget(e.target)>>
             ELSE <<>>)
            \o EdgeErrorsPerEdge(Tail(edges), node_id_set)

RECURSIVE EdgeErrors(_, _)
\* for edge in edges: one error per endpoint that is no node id
EdgeErrors(edges, node_id_set) ==
    IF edges = <<>> THEN <<>>
    ELSE LET e == Head(edges)
         IN (IF e.source \notin node_id_set THEN <<ErrSource(e.source)>> ELSE <<>>)
            \o (IF e.target \notin node_id_set THEN <<ErrTarget(e.target)>> ELSE <<>>)
            \o EdgeErrors(Tail(edges), node_id_set)

\* the start-node check with the upper limit off by one
StartCountErrorsLax(start_nodes) ==
    IF Len(start_nodes) = 0 THEN <<ErrNoStart>>
    ELSE IF Len(start_nodes) > 2 THEN <<ErrManyStart>>
    ELSE <<>>

StartCountErrors(start_nodes) ==
    IF Len(start_nodes) = 0 THEN <<ErrNoStart>>
    ELSE IF Len(start_nodes) > 1 THEN <<ErrManyStart>>
    ELSE <<>>

DagErrors(nodes, edges) == IF ~_is_dag(nodes, edges) THEN <<ErrCycle>> ELSE <<>>

\* a result whose validity also asks for an empty warnings list
validate_result_strict(errors, warnings) ==
    [is_valid |-> Len(errors) = 0 /\ Len(warnings) = 0,
     errors |-> errors, warnings |-> warnings]

\* is_valid = len(errors) == 0; return is_valid, errors, warnings
validate_result(errors, warnings) ==
    [is_valid |-> Len(errors) = 0, errors |-> errors, warnings |-> warnings]

\* the checks validate makes on a definition that has nodes
validate_checks(nodes, edges) ==
    LET start_nodes == SelectSeq(nodes, LAMBDA n : n.type = "start")
        end_nodes == SelectSeq(nodes, LAMBDA n : n.type = "end")
        node_ids == NodeIdSeq(nodes)
        node_id_set == Range(node_ids)
        errors ==
            StartCountErrors(start_nodes)
            \o (IF Len(node_ids) # Cardinality(node_id_set)
                THEN <<ErrDupId>> ELSE <<>>)
            \o EdgeErrors(edges, node_id_set)
            \o DagErrors(nodes, edges)
        warnings ==
            (IF Len(end_nodes) = 0 THEN <<WarnNoEnd>> ELSE <<>>)
            \o (IF start_nodes # <<>>
                   /\ ~_all_reachable(nodes, edges, start_nodes[1].id)
                THEN <<WarnUnreachable>> ELSE <<>>)
    IN validate_result(errors, warnings)

\* validate going on to the checks when the nodes list is empty
validate_unguarded(definition) ==
    IF Falsy(definition)
    THEN [is_valid |-> FALSE, errors |-> <<ErrEmptyDefinition>>, warnings |-> <<>>]
    ELSE validate_checks(GetNodes(definition), GetEdges(definition))

validate(definition) ==
    IF Falsy(definition)
    THEN [is_valid |-> FALSE, errors |-> <<ErrEmptyDefinition>>, warnings |-> <<>>]
    ELSE LET nodes == GetNodes(definition)
             edges == GetEdges(definition)
         IN IF nodes = <<>>
            THEN [is_valid |-> FALSE, errors |-> <<ErrNoNodes>>, warnings |-> <<>>]
            ELSE validate_checks(nodes, edges)

(* ---------------- WorkflowEngine._topological_sort ---------------- *)
RECURSIVE InDegree(_, _, _)
\* in_degree[target] += 1 for every edge with source in adj and target in in_degree
InDegree(edges, ids, n) ==
    IF edges = <<>> THEN 0
    ELSE LET e == Head(edges)
         IN (IF e.source \in ids /\ e.target \in ids /\ e.target = n THEN 1 ELSE 0)
            + InDegree(Tail(edges), ids, n)

\* adj of _topological_sort: only edges with both endpoints declared
SortAdj(nodes, edges) ==
    LET ids == Range(NodeIdSeq(nodes))
    IN BuildAdj(nodes, SelectSeq(edges, LAMBDA e : e.source \in ids /\ e.target \in ids))

RECURSIVE kahn_neighbors_front(_, _, _, _)
\* the loop over the neighbours with a released node put at the front of the queue
kahn_neighbors_front(nbrs, i, in_degree, queue) ==
    IF i > Len(nbrs) THEN [in_degree |-> in_degree, queue |-> queue]
    ELSE LET d == [in_degree EXCEPT ![nbrs[i]] = @ - 1]
         IN kahn_neighbors_front(nbrs, i + 1, d,
                                 IF d[nbrs[i]] = 0 THEN <<nbrs[i]>> \o queue ELSE queue)

RECURSIVE kahn_neighbors(_, _, _, _)
kahn_neighbors(nbrs, i, in_degree, queue) ==
    IF i > Len(nbrs) THEN [in_degree |-> in_degree, queue |-> queue]
    ELSE LET d == [in_degree EXCEPT ![nbrs[i]] = @ - 1]
         IN kahn_neighbors(nbrs, i + 1, d,
                           IF d[nbrs[i]] = 0 THEN Append(queue, nbrs[i]) ELSE queue)

RECURSIVE kahn_loop(_, _, _, _)
kahn_loop(adj, in_degree, queue, result) ==
    IF queue = <<>> THEN result
    ELSE LET current == Head(queue)
             r == kahn_neighbors(AdjGet(adj, current), 1, in_degree, Tail(queue))
         IN kahn_loop(adj, r.in_degree, r.queue, Append(result, current))

\* Kahn's algorithm seeded with every node, whatever its in-degree
topological_sort_unfiltered(nodes, edges) ==
    LET keys == Dedup(NodeIdSeq(nodes))
        ids == Range(keys)
        in_degree == [n \in ids |-> InDegree(edges, ids, n)]
    IN kahn_loop(SortAdj(nodes, edges), in_degree, keys, <<>>)

_topological_sort(nodes, edges) ==
    LET keys == Dedup(NodeIdSeq(nodes))
        ids == Range(keys)
        in_degree == [n \in ids |-> InDegree(edges, ids, n)]
        queue == SelectSeq(keys, LAMBDA n : in_degree[n] = 0)
    IN kahn_loop(SortAdj(nodes, edges), in_degree, queue, <<>>)

(* ---------------- VariableReplacer ---------------- *)
\* A str is the sequence of its characters.  A value of a JSON document or of
\* a context is a record [kind, chars, items]: a str (chars), an int (chars are
\* its decimal digits), a dict (items are its [key, value] pairs in insertion
\* order, keys distinct) or a list (items are its members, under the key '').
Str(chars) == [kind |-> "str", chars |-> chars, items |-> <<>>]
Num(digits) == [kind |-> "int", chars |-> digits, items |-> <<>>]
Dict(items) == [kind |-> "dict", chars |-> <<>>, items |-> items]

Item(key, value) == [key |-> key, value |-> value]

List(elems) == [kind |-> "list", chars |-> <<>>,
                items |-> [i \in DOMAIN elems |-> Item(<<>>, elems[i])]]

\* isinstance(value, dict) and key in value
HasKey(value, key) == value.kind = "dict" /\ \E i \in DOMAIN value.items : value.items[i].key = key

\* value[key]
DictGet(value, key) == value.items[CHOOSE i \in DOMAIN value.items : value.items[i].key = key].value

RECURSIVE Flatten(_)
\* the concatenation of a sequence of strs
Flatten(ss) == IF ss = <<>> THEN <<>> ELSE Head(ss) \o Flatten(Tail(ss))

RECURSIVE Join(_, _)
\* sep.join(ss)
Join(ss, sep) ==
    IF ss = <<>> THEN <<>>
    ELSE IF Len(ss) = 1 THEN ss[1]
    ELSE ss[1] \o sep \o Join(Tail(ss), sep)

RECURSIVE py_repr(_)
\* repr(value) of a str without quotes or escapes, an int, a bool, None, a
\* dict, a list
py_repr(value) ==
    CASE value.kind = "str" -> <<"'">> \o value.chars \o <<"'">>
      [] value.kind \in {"int", "bool"} -> value.chars
      [] value.kind = "None" -> <<"N", "o", "n", "e">>
      [] value.kind = "dict" ->
            <<"{">> \o Join([i \in DOMAIN value.items |->
                                py_repr(Str(value.items[i].key)) \o <<":", " ">>
                                \o py_repr(value.items[i].value)], <<",", " ">>)
            \o <<"}">>
      [] value.kind = "list" ->
            <<"[">> \o Join([i \in DOMAIN value.items |-> py_repr(value.items[i].value)], <<",", " ">>)
            \o <<"]">>
      [] OTHER -> <<"<", value.kind, ">">>

\* str(value)
py_str(value) == IF value.kind = "str" THEN value.chars ELSE py_repr(value)

Whitespace == {" "}

RECURSIVE lstrip(_)
lstrip(s) == IF s # <<>> /\ Head(s) \in Whitespace THEN lstrip(Tail(s)) ELSE s

RECURSIVE rstrip(_)
rstrip(s) == IF s # <<>> /\ Last(s) \in Whitespace THEN rstrip(Front(s)) ELSE s

\* s.strip()
strip(s) == rstrip(lstrip(s))

RECURSIVE split(_, _)
\* s.split(sep) for a separator of one character
split(s, sep) ==
    IF s = <<>> THEN << <<>> >>
    ELSE LET r == split(Front(s), sep)
         IN IF Last(s) = sep THEN Append(r, <<>>)
            ELSE [r EXCEPT ![Len(r)] = Append(@, Last(s))]

RECURSIVE walk(_, _, _)
\* for key in keys: value = value[key] when value is a dict that has the key
walk(value, keys, i) ==
    IF i > Len(keys) THEN [found |-> TRUE, value |-> value]
    ELSE IF HasKey(value, keys[i]) THEN walk(DictGet(value, keys[i]), keys, i + 1)
    ELSE [found |-> FALSE, value |-> value]

\* the replacement function returning '' when the lookup misses
replacer_blank(whole, group, context) ==
    LET r == walk(context, split(strip(group), "."), 1)
    IN IF r.found THEN py_str(r.value) ELSE <<>>

\* replacer(match): whole is match.group(0), group is match.group(1)
replacer(whole, group, context) ==
    LET r == walk(context, split(strip(group), "."), 1)
    IN IF r.found THEN py_str(r.value) ELSE whole

RECURSIVE next_close(_, _)
\* the first index >= i of a "}" in s, Len(s) + 1 when there is none
next_close(s, i) == IF i > Len(s) \/ s[i] = "}" THEN i ELSE next_close(s, i + 1)

\* a match of \{\{([^}]+)\}\} starting at i: the index of its last character,
\* 0 when the pattern does not match at i
match_end(s, i) ==
    IF i + 1 <= Len(s) /\ s[i] = "{" /\ s[i + 1] = "{"
    THEN LET j == next_close(s, i + 2)
         IN IF j > i + 2 /\ j + 1 <= Len(s) /\ s[j + 1] = "}" THEN j + 1 ELSE 0
    ELSE 0

RECURSIVE re_sub(_, _, _)
\* re.sub(pattern, replacer, s) from index i on: leftmost matches, not overlapping
re_sub(s, i, context) ==
    IF i > Len(s) THEN <<>>
    ELSE LET m == match_end(s, i)
         IN IF m = 0 THEN <<s[i]>> \o re_sub(s, i + 1, context)
            ELSE replacer(SubSeq(s, i, m), SubSeq(s, i + 2, m - 2), context)
                 \o re_sub(s, m + 1, context)

\* VariableReplacer.replace(text, context)
replace(text, context) ==
    IF text.kind # "str" THEN text ELSE Str(re_sub(text.chars, 1, context))

RECURSIVE replace_dict(_, _)
\* VariableReplacer.replace_dict(data, context) for a dict data
replace_dict(data, context) ==
    Dict([i \in DOMAIN data.items |->
            LET value == data.items[i].value
            IN Item(data.items[i].key,
                    CASE value.kind = "str" -> replace(value, context)
                      [] value.kind = "dict" -> replace_dict(value, context)
                      [] value.kind = "list" ->
                            List([j \in DOMAIN value.items |->
                                    LET item == value.items[j].value
                                    IN IF item.kind = "str" THEN replace(item, context)
                                       ELSE IF item.kind = "dict"
                                            THEN replace_dict(item, context)
                                            ELSE item])
                      [] OTHER -> value)])

(* ---------------- Python values in the handlers ---------------- *)
\* None, True and False
PyNone == [kind |-> "None", chars |-> <<>>, items |-> <<>>]
PyBool(b) ==
    [kind |-> "bool",
     chars |-> IF b THEN <<"T", "r", "u", "e">> ELSE <<"F", "a", "l", "s", "e">>,
     items |-> <<>>]

\* bool(value): '', 0, {}, [], None and False are falsy
Truthy(value) ==
    CASE value.kind = "str" -> value.chars # <<>>
      [] value.kind \in {"int", "float"} ->
            \E i \in DOMAIN value.chars : value.chars[i] \notin {"0", "-"}
      [] value.kind \in {"dict", "list"} -> value.items # <<>>
      [] value.kind = "None" -> FALSE
      [] value.kind = "bool" -> value.chars = <<"T", "r", "u", "e">>
      [] OTHER -> TRUE

\* d.get(key, default)
get(d, key, default) == IF HasKey(d, key) THEN DictGet(d, key) ELSE default

\* the members of a list, as a sequence
Elems(value) == [i \in DOMAIN value.items |-> value.items[i].value]

Digits == <<"0", "1", "2", "3", "4", "5", "6", "7", "8", "9">>

\* s.isdigit() for a str of ASCII characters
isdigit(s) == s # <<>> /\ \A i \in DOMAIN s : s[i] \in Range(Digits)

DigitValue(c) == (CHOOSE i \in DOMAIN Digits : Digits[i] = c) - 1

RECURSIVE py_int(_)
\* int(s) for a str of digits
py_int(s) == IF s = <<>> THEN 0 ELSE 10 * py_int(Front(s)) + DigitValue(Last(s))

RECURSIVE DigitsOf(_)
\* the decimal digits of a natural number
DigitsOf(n) == IF n < 10 THEN <<Digits[n + 1]>> ELSE Append(DigitsOf(n \div 10), Digits[(n % 10) + 1])

\* the int n as a value
IntOf(n) == Num(IF n < 0 THEN <<"-">> \o DigitsOf(0 - n) ELSE DigitsOf(n))

\* the number an int value stands for
IntValue(value) ==
    IF value.chars # <<>> /\ Head(value.chars) = "-"
    THEN 0 - py_int(Tail(value.chars)) ELSE py_int(value.chars)

(* ---------------- json.loads ---------------- *)
\* json.loads(s) of the standard library, for texts over the characters of
\* objects, arrays, strs without escapes, ints without sign, null, true,
\* false and the blank.  A scan returns [ok, value, next]: next is the index
\* after the value; ok = FALSE stands for JSONDecodeError.
ScanFail == [ok |-> FALSE, value |-> PyNone, next |-> 0]
Scanned(value, next) == [ok |-> TRUE, value |-> value, next |-> next]

RECURSIVE skip_ws(_, _)
\* WHITESPACE.match(s, i).end()
skip_ws(s, i) == IF i <= Len(s) /\ s[i] \in Whitespace THEN skip_ws(s, i + 1) ELSE i

\* s[i:i+1] == c
CharAt(s, i, c) == i <= Len(s) /\ s[i] = c

\* s[i:i+len(word)] == word
WordAt(s, i, word) == i + Len(word) - 1 <= Len(s) /\ SubSeq(s, i, i + Len(word) - 1) = word

RECURSIVE next_quote(_, _)
next_quote(s, i) == IF i > Len(s) \/ s[i] = "\"" THEN i ELSE next_quote(s, i + 1)

\* scanstring(s, i): i is the index after the opening quote
scanstring(s, i) ==
    LET j == next_quote(s, i)
    IN IF j > Len(s) THEN ScanFail ELSE Scanned(Str(SubSeq(s, i, j - 1)), j + 1)

RECURSIVE digits_end(_, _)
\* the index after the run of digits that starts at i
digits_end(s, i) == IF i <= Len(s) /\ s[i] \in Range(Digits) THEN digits_end(s, i + 1) ELSE i

\* NUMBER_RE.match(s, i) without sign, fraction or exponent: 0 | [1-9][0-9]*
match_number(s, i) ==
    IF CharAt(s, i, "0") THEN Scanned(Num(<<"0">>), i + 1)
    ELSE IF i <= Len(s) /\ s[i] \in Range(Digits)
         THEN Scanned(Num(SubSeq(s, i, digits_end(s, i) - 1)), digits_end(s, i))
         ELSE ScanFail

\* pairs[key] = value on the list of items of a dict
DictSet(items, key, value) ==
    IF \E i \in DOMAIN items : items[i].key = key
    THEN [i \in DOMAIN items |-> IF items[i].key = key THEN Item(key, value) ELSE items[i]]
    ELSE Append(items, Item(key, value))

RECURSIVE scan_once(_, _)
RECURSIVE JSONObject_pairs(_, _, _)
RECURSIVE JSONArray_values(_, _, _)

\* the loop of JSONObject: i is the index of the quote that opens a key
JSONObject_pairs(s, i, pairs) ==
    LET k == scanstring(s, i + 1)
    IN IF ~k.ok THEN ScanFail
       ELSE LET c == skip_ws(s, k.next)
            IN IF ~CharAt(s, c, ":") THEN ScanFail
               ELSE LET v == scan_once(s, skip_ws(s, c + 1))
                    IN IF ~v.ok THEN ScanFail
                       ELSE LET d == skip_ws(s, v.next)
                                added == DictSet(pairs, k.value.chars, v.value)
                            IN IF CharAt(s, d, "}") THEN Scanned(Dict(added), d + 1)
                               ELSE IF CharAt(s, d, ",")
                                       /\ CharAt(s, skip_ws(s, d + 1), "\"")
                                    THEN JSONObject_pairs(s, skip_ws(s, d + 1), added)
                                    ELSE ScanFail

\* JSONObject(s, i): i is the index after the opening brace
JSONObject(s, i) ==
    LET j == skip_ws(s, i)
    IN IF CharAt(s, j, "}") THEN Scanned(Dict(<<>>), j + 1)
       ELSE IF CharAt(s, j, "\"") THEN JSONObject_pairs(s, j, <<>>)
       ELSE ScanFail

\* the loop of JSONArray: i is the index where a member starts
JSONArray_values(s, i, values) ==
    LET v == scan_once(s, i)
    IN IF ~v.ok THEN ScanFail
       ELSE LET d == skip_ws(s, v.next)
                added == Append(values, v.value)
            IN IF CharAt(s, d, "]") THEN Scanned(List(added), d + 1)
               ELSE IF CharAt(s, d, ",")
                    THEN JSONArray_values(s, skip_ws(s, d + 1), added)
                    ELSE ScanFail

\* JSONArray(s, i): i is the index after the opening bracket
JSONArray(s, i) ==
    LET j == skip_ws(s, i)
    IN IF CharAt(s, j, "]") THEN Scanned(List(<<>>), j + 1)
       ELSE JSONArray_values(s, j, <<>>)

\* scan_once(s, i): the value that starts at index i
scan_once(s, i) ==
    IF i > Len(s) THEN ScanFail
    ELSE IF s[i] = "\"" THEN scanstring(s, i + 1)
    ELSE IF s[i] = "{" THEN JSONObject(s, i + 1)
    ELSE IF s[i] = "[" THEN JSONArray(s, i + 1)
    ELSE IF WordAt(s, i, <<"n", "u", "l", "l">>) THEN Scanned(PyNone, i + 4)
    ELSE IF WordAt(s, i, <<"t", "r", "u", "e">>) THEN Scanned(PyBool(TRUE), i + 4)
    ELSE IF WordAt(s, i, <<"f", "a", "l", "s", "e">>) THEN Scanned(PyBool(FALSE), i + 5)
    ELSE match_number(s, i)

\* json.loads(s): the value, with blanks around it, must be the whole text
json_loads(s) ==
    LET r == scan_once(s, skip_ws(s, 1))
    IN IF r.ok /\ skip_ws(s, r.next) = Len(s) + 1 THEN r ELSE ScanFail

(* ---------------- values of the engine ---------------- *)
\* a nullable column or variable: Null is None, Some(v) a value
Null == <<>>
Some(v) == <<v>>

\* a JSON value (input_data, a node's output)
Data(v) == [kind |-> "data", chars |-> <<v>>, items |-> <<>>]

\* the context dict itself: _execute_end_node returns the object it was handed
CtxRef == [kind |-> "context", chars |-> <<"self">>, items |-> <<>>]

Inputs == {Data("x1"), Data("x2")}
HandlerOutputs == {Data("o1"), Data("o2")}
Causes == {"handler error"}
UnsupportedCause == "unsupported node type"
Stamp == "utcnow"

\* the node kinds execute_node dispatches to a handler that calls a provider
ProviderKinds == {"llm", "http", "knowledge", "intent", "string"}

\* node['data'] of a node whose config the model leaves open: its handler may
\* return any output or raise
OpenData == [kind |-> "open", chars |-> <<>>, items |-> <<>>]

K_config == <<"c", "o", "n", "f", "i", "g">>

\* node['data'] holding a config dict
NodeData(config) == Dict(<<Item(K_config, config)>>)

N(id, type) == [id |-> id, type |-> type, data |-> OpenData]

\* a node with a config
NC(id, type, config) == [id |-> id, type |-> type, data |-> NodeData(config)]

\* config = node.get("data", {}).get("config", {})
ConfigOf(node) == get(node.data, K_config, Dict(<<>>))

K_input == <<"i", "n", "p", "u", "t">>
K_nodes == <<"n", "o", "d", "e", "s">>
K_result == <<"r", "e", "s", "u", "l", "t">>
K_operation == <<"o", "p", "e", "r", "a", "t", "i", "o", "n">>
K_input_text == <<"i", "n", "p", "u", "t", "_", "t", "e", "x", "t">>
K_template == <<"t", "e", "m", "p", "l", "a", "t", "e">>
K_texts == <<"t", "e", "x", "t", "s">>
K_separator == <<"s", "e", "p", "a", "r", "a", "t", "o", "r">>
K_search == <<"s", "e", "a", "r", "c", "h">>
K_replace_with == <<"r", "e", "p", "l", "a", "c", "e", "_", "w", "i", "t", "h">>
K_delimiter == <<"d", "e", "l", "i", "m", "i", "t", "e", "r">>
K_pattern == <<"p", "a", "t", "t", "e", "r", "n">>
K_start == <<"s", "t", "a", "r", "t">>
K_end == <<"e", "n", "d">>
K_json_path == <<"j", "s", "o", "n", "_", "p", "a", "t", "h">>

\* the names of string operations, as strs
S_concat == <<"c", "o", "n", "c", "a", "t">>
S_format == <<"f", "o", "r", "m", "a", "t">>

\* a string node with operation 'format' and the given template
NF(id, template) ==
    NC(id, "string", Dict(<<Item(K_operation, Str(S_format)), Item(K_template, Str(template))>>))

\* the key of a node's output in context['nodes']: the node id, a str
IdKey(node_id) == <<ToString(node_id)>>

\* '{{<node id>.result}}' and '{{nodes.<node id>.result}}'
T_id_result(node_id) ==
    <<"{", "{">> \o IdKey(node_id) \o <<".">> \o K_result \o <<"}", "}">>
T_nodes_id_result(node_id) ==
    <<"{", "{">> \o K_nodes \o <<".">> \o IdKey(node_id) \o <<".">> \o K_result \o <<"}", "}">>
Ed(source, target) == [source |-> source, target |-> target]

\* definitions a stored workflow has in the runs of the model
RunDefs ==
    { Def(<<N(1, "start"), N(2, "string"), N(3, "end")>>, <<Ed(1, 2), Ed(2, 3)>>),
      Def(<<N(2, "http"), N(1, "start"), N(3, "end")>>, <<Ed(1, 2), Ed(1, 2), Ed(2, 3)>>),
      Def(<<N(1, "start"), N(2, "string"), N(3, "http")>>, <<Ed(1, 2), Ed(1, 3)>>),
      Def(<<N(1, "string"), N(2, "start")>>, <<>>),
      Def(<<N(1, "start"), N(2, "code")>>, <<Ed(1, 2)>>),
      Def(<<N(1, "start"), N(2, "string")>>, <<Ed(1, 2), Ed(2, 2)>>),
      Def(<<N(1, "string")>>, <<>>),
      Def(<<N(1, "start"), N(2, "end")>>, <<Ed(1, 2)>>),
      Def(<<N(1, "start"), NF(2, <<"v">>), NF(3, T_id_result(2))>>, <<Ed(1, 2), Ed(2, 3)>>),
      Def(<<N(1, "start"), NF(2, <<"v">>), NF(3, T_nodes_id_result(2))>>, <<Ed(1, 2), Ed(2, 3)>>),
      NoneDefinition }

\* the id of the user who created the workflow (create_workflow stores
\* current_user.id as user_id)
OwnerId == 1

NewWorkflow(d) ==
    [definition |-> d, version |-> 1, status |-> "DRAFT",
     execution_count |-> 0, success_count |-> 0, user_id |-> OwnerId]

NewExecution(version, input) ==
    [status |-> "PENDING", workflow_version |-> version, input_data |-> input,
     output_data |-> Null, context |-> Null, error_message |-> Null,
     error_node_id |-> Null, started_at |-> Null, completed_at |-> Null]

NoInput == [kind |-> "none", chars |-> <<"none">>, items |-> <<>>]

\* the local variables of one execute_workflow call; validated and stamped
\* are history: the definition the call's validation was handed, and the
\* definition the row held when the record got its workflow_version
CallFrame(input, n) ==
    [pc |-> "called", input |-> input, is_valid |-> FALSE,
     context |-> [input |-> NoInput, nodes |-> <<>>],
     nodes |-> <<>>, edges |-> <<>>, execution_order |-> <<>>, idx |-> 0,
     invoked |-> <<>>, raised |-> Null, calls |-> n,
     seen |-> [execution_count |-> 0, success_count |-> 0],
     validated |-> NoneDefinition, stamped |-> NoneDefinition]

LogEntry(node, level, message, cause, output) ==
    [node_id |-> node.id, node_type |-> node.type, level |-> level,
     message |-> message, cause |-> cause, output_data |-> output]

ErrWorkflowEmpty == [msg |-> "workflow definition empty", arg |-> 0]

validate_workflow(wf) ==
    IF Falsy(wf.definition)
    THEN [is_valid |-> FALSE, errors |-> <<ErrWorkflowEmpty>>, warnings |-> <<>>]
    ELSE validate(wf.definition)

\* next(n for n in nodes if n.get("id") == node_id)
NodeById(nodes, node_id) ==
    nodes[CHOOSE i \in DOMAIN nodes :
            nodes[i].id = node_id /\ \A j \in 1..(i - 1) : nodes[j].id # node_id]

\* the context dict handed to the handlers, as a value: {'input': ...,
\* 'nodes': {...}} with the node outputs in the order they were stored.  An
\* input or a provider's output is a JSON object none of whose keys the
\* templates of the model name.
ContextValue(context, stored) ==
    Dict(<<Item(K_input, context.input),
           Item(K_nodes, Dict([i \in DOMAIN stored |->
                                  Item(IdKey(stored[i]), context.nodes[stored[i]])]))>>)

(* ---------------- str methods used by the handlers ---------------- *)
RECURSIVE find(_, _, _)
\* s.find(sub, i - 1) + 1: the first index >= i where sub occurs in s, 0 when
\* there is none
find(s, sub, i) ==
    IF i + Len(sub) - 1 > Len(s) THEN 0
    ELSE IF SubSeq(s, i, i + Len(sub) - 1) = sub THEN i
    ELSE find(s, sub, i + 1)

RECURSIVE str_split(_, _)
\* s.split(sep) for a non-empty sep: a sequence of strs
str_split(s, sep) ==
    LET i == find(s, sep, 1)
    IN IF i = 0 THEN <<s>>
       ELSE <<SubSeq(s, 1, i - 1)>> \o str_split(SubSeq(s, i + Len(sep), Len(s)), sep)

RECURSIVE split_whitespace(_)
\* s.split(None): the runs of characters that are not whitespace
split_whitespace(s) ==
    LET t == lstrip(s)
        i == find(t, <<" ">>, 1)
    IN IF t = <<>> THEN <<>>
       ELSE IF i = 0 THEN <<t>>
       ELSE <<SubSeq(t, 1, i - 1)>> \o split_whitespace(SubSeq(t, i, Len(t)))

RECURSIVE str_replace(_, _, _)
\* s.replace(old, new)
str_replace(s, old, new) ==
    IF old = <<>>
    THEN new \o Flatten([i \in DOMAIN s |-> <<s[i]>> \o new])
    ELSE LET i == find(s, old, 1)
         IN IF i = 0 THEN s
            ELSE SubSeq(s, 1, i - 1) \o new
                 \o str_replace(SubSeq(s, i + Len(old), Len(s)), old, new)

LowerCase == <<"a", "b", "c", "d", "e", "f", "g", "h", "i", "j", "k", "l", "m",
               "n", "o", "p", "q", "r", "s", "t", "u", "v", "w", "x", "y", "z">>
UpperCase == <<"A", "B", "C", "D", "E", "F", "G", "H", "I", "J", "K", "L", "M",
               "N", "O", "P", "Q", "R", "S", "T", "U", "V", "W", "X", "Y", "Z">>

\* the character of the other alphabet at the same place, c when it is no letter
MapChar(c, from, to) ==
    IF c \in Range(from) THEN to[CHOOSE i \in DOMAIN from : from[i] = c] ELSE c

\* s.upper() and s.lower() for ASCII strs
upper(s) == [i \in DOMAIN s |-> MapChar(s[i], LowerCase, UpperCase)]
lower(s) == [i \in DOMAIN s |-> MapChar(s[i], UpperCase, LowerCase)]

\* the index a slice bound stands for in a sequence of n members
SliceIndex(bound, n, default) ==
    IF bound.kind = "None" THEN default
    ELSE LET k == IntValue(bound)
         IN IF k < 0 THEN (IF n + k < 0 THEN 0 ELSE n + k)
            ELSE IF k > n THEN n ELSE k

\* s[start:end] for bounds that are ints or None
py_slice(s, start, end) ==
    SubSeq(s, SliceIndex(start, Len(s), 0) + 1, SliceIndex(end, Len(s), Len(s)))

\* the characters that stand for themselves in a regular expression
PatternLiterals == Range(LowerCase) \cup Range(UpperCase) \cup Range(Digits) \cup {" ", ",", ":"}

RECURSIVE findall_literal(_, _, _)
\* re.findall(pattern, s) from index i on, for a pattern of literal characters:
\* its occurrences from left to right, not overlapping
findall_literal(s, pattern, i) ==
    IF pattern = <<>> THEN [j \in 1..(Len(s) + 1) |-> Str(<<>>)]
    ELSE LET k == find(s, pattern, i)
         IN IF k = 0 THEN <<>>
            ELSE <<Str(pattern)>> \o findall_literal(s, pattern, k + Len(pattern))

(* ---------------- NodeExecutor: the node handlers ---------------- *)
\* the outcome of a handler: it returns an output or raises with a cause
Returned(output) == [raised |-> FALSE, cause |-> "", output |-> output]
Raised(cause) == [raised |-> TRUE, cause |-> cause, output |-> PyNone]

S_replace == <<"r", "e", "p", "l", "a", "c", "e">>
S_split == <<"s", "p", "l", "i", "t">>
S_extract == <<"e", "x", "t", "r", "a", "c", "t">>
S_upper == <<"u", "p", "p", "e", "r">>
S_lower == <<"l", "o", "w", "e", "r">>
S_trim == <<"t", "r", "i", "m">>
S_length == <<"l", "e", "n", "g", "t", "h">>
S_substring == <<"s", "u", "b", "s", "t", "r", "i", "n", "g">>
S_json_extract == <<"j", "s", "o", "n", "_", "e", "x", "t", "r", "a", "c", "t">>

RECURSIVE json_walk(_, _, _)
\* the loop of json_extract over json_path.split('.'): [raised, value]
json_walk(data, keys, i) ==
    IF i > Len(keys) THEN [raised |-> FALSE, value |-> data]
    ELSE IF HasKey(data, keys[i]) THEN json_walk(DictGet(data, keys[i]), keys, i + 1)
    ELSE IF data.kind = "list" /\ isdigit(keys[i])
         THEN IF py_int(keys[i]) < Len(data.items)
              THEN json_walk(data.items[py_int(keys[i]) + 1].value, keys, i + 1)
              ELSE [raised |-> TRUE, value |-> PyNone]
    ELSE [raised |-> FALSE, value |-> PyNone]

\* the result of a string operation: Returned(result) or Raised(cause); an
\* exception of a str method is raised when a value is not of the type the
\* method needs
string_result(operation, config, input_text, context) ==
    CASE operation = Str(S_concat) ->
            LET texts == get(config, K_texts, List(<<>>))
                separator == get(config, K_separator, Str(<<>>))
                members == IF texts.kind = "list" THEN Elems(texts)
                           ELSE IF texts.kind = "str"
                                THEN [i \in DOMAIN texts.chars |-> Str(<<texts.chars[i]>>)]
                                ELSE [i \in DOMAIN texts.items |-> Str(texts.items[i].key)]
                processed_texts == [i \in DOMAIN members |-> replace(members[i], context)]
            IN IF texts.kind \notin {"list", "str", "dict"} THEN Raised("TypeError")
               ELSE IF separator.kind # "str" THEN Raised("AttributeError")
               ELSE IF \E i \in DOMAIN processed_texts : processed_texts[i].kind # "str"
                    THEN Raised("TypeError")
               ELSE Returned(Str(Join([i \in DOMAIN processed_texts |->
                                          processed_texts[i].chars], separator.chars)))
      [] operation = Str(S_replace) ->
            LET search == replace(get(config, K_search, Str(<<>>)), context)
                replace_with == replace(get(config, K_replace_with, Str(<<>>)), context)
            IN IF input_text.kind # "str" THEN Raised("AttributeError")
               ELSE IF search.kind # "str" \/ replace_with.kind # "str" THEN Raised("TypeError")
               ELSE Returned(Str(str_replace(input_text.chars, search.chars, replace_with.chars)))
      [] operation = Str(S_split) ->
            LET delimiter == get(config, K_delimiter, Str(<<",">>))
                parts == IF delimiter.kind = "None" THEN split_whitespace(input_text.chars)
                         ELSE str_split(input_text.chars, delimiter.chars)
            IN IF input_text.kind # "str" THEN Raised("AttributeError")
               ELSE IF delimiter.kind \notin {"str", "None"} THEN Raised("TypeError")
               ELSE IF delimiter = Str(<<>>) THEN Raised("ValueError")
               ELSE Returned(List([i \in DOMAIN parts |-> Str(parts[i])]))
      [] operation = Str(S_extract) ->
            LET pattern == get(config, K_pattern, Str(<<>>))
            IN IF pattern.kind # "str" \/ input_text.kind # "str" THEN Raised("TypeError")
               ELSE IF Range(pattern.chars) \subseteq PatternLiterals
                    THEN Returned(List(findall_literal(input_text.chars, pattern.chars, 1)))
                    ELSE Raised("re.error")
      [] operation = Str(S_format) ->
            Returned(replace(get(config, K_template, Str(<<>>)), context))
      [] operation = Str(S_upper) ->
            IF input_text.kind # "str" THEN Raised("AttributeError")
            ELSE Returned(Str(upper(input_text.chars)))
      [] operation = Str(S_lower) ->
            IF input_text.kind # "str" THEN Raised("AttributeError")
            ELSE Returned(Str(lower(input_text.chars)))
      [] operation = Str(S_trim) ->
            IF input_text.kind # "str" THEN Raised("AttributeError")
            ELSE Returned(Str(strip(input_text.chars)))
      [] operation = Str(S_length) ->
            IF input_text.kind = "str" THEN Returned(IntOf(Len(input_text.chars)))
            ELSE IF input_text.kind \in {"list", "dict"} THEN Returned(IntOf(Len(input_text.items)))
            ELSE Raised("TypeError")
      [] operation = Str(S_substring) ->
            LET start == get(config, K_start, IntOf(0))
                end == get(config, K_end, PyNone)
            IN IF input_text.kind \notin {"str", "list"}
                  \/ start.kind \notin {"int", "None"} \/ end.kind \notin {"int", "None"}
               THEN Raised("TypeError")
               ELSE IF input_text.kind = "str"
                    THEN Returned(Str(py_slice(input_text.chars, start, end)))
                    ELSE Returned(List(py_slice(Elems(input_text), start, end)))
      [] operation = Str(S_json_extract) ->
            LET json_path == get(config, K_json_path, Str(<<>>))
                data == json_loads(input_text.chars)
                walked == json_walk(data.value, split(json_path.chars, "."), 1)
            IN IF input_text.kind # "str" THEN Raised("TypeError")
               ELSE IF ~data.ok THEN Returned(PyNone)
               ELSE IF json_path.kind # "str" THEN Raised("AttributeError")
               ELSE IF walked.raised THEN Raised("IndexError")
               ELSE Returned(walked.value)
      [] OTHER -> Raised("unsupported string operation")

\* NodeExecutor._execute_string_node(node, context, execution)
_execute_string_node(node, context) ==
    LET config == ConfigOf(node)
        operation == get(config, K_operation, Str(S_concat))
        input_text == replace(get(config, K_input_text, Str(<<>>)), context)
        r == string_result(operation, config, input_text, context)
    IN IF config.kind # "dict" THEN Raised("AttributeError")
       ELSE IF r.raised THEN r
       ELSE Returned(Dict(<<Item(K_result, r.output),
                            Item(K_operation, operation),
                            Item(K_input_text, input_text)>>))

K_model_id == <<"m", "o", "d", "e", "l", "_", "i", "d">>
K_intents == <<"i", "n", "t", "e", "n", "t", "s">>
K_name == <<"n", "a", "m", "e">>
K_description == <<"d", "e", "s", "c", "r", "i", "p", "t", "i", "o", "n">>
K_keywords == <<"k", "e", "y", "w", "o", "r", "d", "s">>
K_intent == <<"i", "n", "t", "e", "n", "t">>
K_confidence == <<"c", "o", "n", "f", "i", "d", "e", "n", "c", "e">>
K_reason == <<"r", "e", "a", "s", "o", "n">>
K_raw_response == <<"r", "a", "w", "_", "r", "e", "s", "p", "o", "n", "s", "e">>
K_choices == <<"c", "h", "o", "i", "c", "e", "s">>
K_message == <<"m", "e", "s", "s", "a", "g", "e">>
K_content == <<"c", "o", "n", "t", "e", "n", "t">>
S_unknown == <<"u", "n", "k", "n", "o", "w", "n">>

\* the ids of the LLMModel rows: db.query(LLMModel).filter(LLMModel.id ==
\* model_id).first() finds a row for these and None for any other value
StoredModels == {IntOf(1)}

\* what llm_service.chat(...) does: it raises, or it returns a response
ChatRaises == [raised |-> TRUE, response |-> PyNone]
ChatReturns(response) == [raised |-> FALSE, response |-> response]

\* a response whose first choice has a message with the content
ChatResponse(content) ==
    Dict(<<Item(K_choices,
                List(<<Dict(<<Item(K_message, Dict(<<Item(K_content, Str(content))>>))>>)>>))>>)

RECURSIVE next_brace(_, _)
\* the first index >= i of a brace in s, Len(s) + 1 when there is none
next_brace(s, i) == IF i > Len(s) \/ s[i] \in {"{", "}"} THEN i ELSE next_brace(s, i + 1)

RECURSIVE search_object(_, _)
\* re.search(r'\{[^{}]*\}', s, re.DOTALL) from index i on: the leftmost match
\* as [found, text]
search_object(s, i) ==
    IF i > Len(s) THEN [found |-> FALSE, text |-> <<>>]
    ELSE LET j == next_brace(s, i + 1)
         IN IF s[i] = "{" /\ CharAt(s, j, "}")
            THEN [found |-> TRUE, text |-> SubSeq(s, i, j)]
            ELSE search_object(s, i + 1)

\* each member of intents is read as intent['name'], intent.get('description',
\* ''), ', '.join(intent.get('keywords', [])): that raises unless the member is
\* a dict with a name whose keywords are strs
IntentReadable(intent) ==
    /\ HasKey(intent, K_name)
    /\ LET keywords == get(intent, K_keywords, List(<<>>))
       IN \/ keywords.kind \in {"str", "dict"}
          \/ /\ keywords.kind = "list"
             /\ \A i \in DOMAIN keywords.items : keywords.items[i].value.kind = "str"

\* the result the handler reads the reply as: the parsed object, or the
\* 'unknown' result when the content has no object or the object is no JSON
ParsedIntent(content) ==
    LET json_match == search_object(content, 1)
        parsed == json_loads(json_match.text)
    IN IF ~json_match.found
       THEN Dict(<<Item(K_intent, Str(S_unknown)), Item(K_confidence, IntOf(0)),
                   Item(K_reason, Str(<<"no object">>))>>)
       ELSE IF ~parsed.ok
            THEN Dict(<<Item(K_intent, Str(S_unknown)), Item(K_confidence, IntOf(0)),
                        Item(K_reason, Str(<<"no JSON">>)),
                        Item(K_raw_response, Str(content))>>)
            ELSE parsed.value

\* NodeExecutor._execute_intent_node(node, context, execution), given what the
\* call of the language model does
_execute_intent_node(node, context, chat) ==
    LET config == ConfigOf(node)
        model_id == get(config, K_model_id, PyNone)
        input_text == replace(get(config, K_input_text, Str(<<>>)), context)
        intents == get(config, K_intents, List(<<>>))
        choices == get(chat.response, K_choices, List(<<Dict(<<>>)>>))
        content == get(get(choices.items[1].value, K_message, Dict(<<>>)), K_content, Str(<<>>))
        result == ParsedIntent(content.chars)
    IN IF config.kind # "dict" THEN Raised("AttributeError")
       ELSE IF ~Truthy(model_id) THEN Raised("model_id required")
       ELSE IF ~Truthy(input_text) THEN Raised("input_text required")
       ELSE IF ~Truthy(intents) THEN Raised("intents required")
       ELSE IF model_id \notin StoredModels THEN Raised("model not found")
       ELSE IF intents.kind # "list" \/ \E i \in DOMAIN intents.items :
                                           ~IntentReadable(intents.items[i].value)
            THEN Raised("intents not readable")
       ELSE IF chat.raised THEN Raised("chat failed")
       ELSE IF choices.kind # "list" \/ choices.items = <<>> THEN Raised("IndexError")
       ELSE Returned(Dict(<<Item(K_intent, get(result, K_intent, Str(S_unknown))),
                            Item(K_confidence, get(result, K_confidence, IntOf(0))),
                            Item(K_reason, get(result, K_reason, Str(<<>>))),
                            Item(K_input_text, input_text),
                            Item(K_raw_response, content)>>))

\* the contents of the replies of the language model: an object, prose, an
\* object that is no JSON
ChatContents ==
    { <<"{", "\"", "i", "n", "t", "e", "n", "t", "\"", ":", " ", "\"", "a", "\"", ",", " ", "\"", "c", "o", "n", "f", "i", "d", "e", "n", "c", "e", "\"", ":", " ", "1", "}">>,
      <<"h", "e", "l", "l", "o">>,
      <<"{", "b", "a", "d", "}">> }

\* what the call of the language model can do
ChatOutcomes == {ChatRaises} \cup {ChatReturns(ChatResponse(c)) : c \in ChatContents}

K_method == <<"m", "e", "t", "h", "o", "d">>
K_url == <<"u", "r", "l">>
K_headers == <<"h", "e", "a", "d", "e", "r", "s">>
K_body == <<"b", "o", "d", "y">>
K_timeout == <<"t", "i", "m", "e", "o", "u", "t">>
K_status_code == <<"s", "t", "a", "t", "u", "s", "_", "c", "o", "d", "e">>
K_success == <<"s", "u", "c", "c", "e", "s", "s">>
S_GET == <<"G", "E", "T">>

\* what requests.request(...) does: it raises a RequestException, or it
\* returns a response with a status code and a text
RequestRaises == [raised |-> TRUE, status_code |-> 0, text |-> <<>>]
RequestReturns(status_code, text) ==
    [raised |-> FALSE, status_code |-> status_code, text |-> text]

\* a handler that takes a status code from 400 on for a failure
_execute_http_node_checked(node, context, response) ==
    LET config == ConfigOf(node)
        url == replace(get(config, K_url, Str(<<>>)), context)
    IN IF ~Truthy(url) THEN Raised("url required")
       ELSE IF response.raised THEN Raised("request failed")
       ELSE IF response.status_code >= 400 THEN Raised("status error")
       ELSE Returned(Dict(<<Item(K_status_code, IntOf(response.status_code)),
                            Item(K_headers, Dict(<<>>)),
                            Item(K_body, Str(response.text)),
                            Item(K_success, PyBool(TRUE))>>))

\* NodeExecutor._execute_http_node(node, context, execution), given what the
\* request does; the body is sent for every method but GET and DELETE
_execute_http_node(node, context, response) ==
    LET config == ConfigOf(node)
        method == get(config, K_method, Str(S_GET))
        url == replace(get(config, K_url, Str(<<>>)), context)
        headers == get(config, K_headers, Dict(<<>>))
        body == get(config, K_body, Dict(<<>>))
        parsed == json_loads(response.text)
        response_data == IF parsed.ok THEN parsed.value ELSE Str(response.text)
    IN IF config.kind # "dict" \/ method.kind # "str" THEN Raised("AttributeError")
       ELSE IF headers.kind # "dict" \/ body.kind # "dict" THEN Raised("AttributeError")
       ELSE IF ~Truthy(url) THEN Raised("url required")
       ELSE IF response.raised THEN Raised("request failed")
       ELSE Returned(Dict(<<Item(K_status_code, IntOf(response.status_code)),
                            Item(K_headers, Dict(<<>>)),
                            Item(K_body, response_data),
                            Item(K_success, PyBool(response.status_code < 400))>>))

\* the status codes and the texts of the responses
StatusCodes == {200, 399, 400, 500}
ResponseTexts == {<<"{", "\"", "a", "\"", ":", " ", "1", "}">>, <<"n", "o">>}

\* what the request can do
RequestOutcomes ==
    {RequestRaises} \cup {RequestReturns(c, x) : c \in StatusCodes, x \in ResponseTexts}

K_knowledge_base_id == <<"k", "n", "o", "w", "l", "e", "d", "g", "e", "_", "b", "a", "s", "e", "_", "i", "d">>
K_query == <<"q", "u", "e", "r", "y">>
K_top_k == <<"t", "o", "p", "_", "k">>
K_similarity_threshold == <<"s", "i", "m", "i", "l", "a", "r", "i", "t", "y", "_", "t", "h", "r", "e", "s", "h", "o", "l", "d">>
K_results == <<"r", "e", "s", "u", "l", "t", "s">>
K_count == <<"c", "o", "u", "n", "t">>
K_context_text == <<"c", "o", "n", "t", "e", "x", "t", "_", "t", "e", "x", "t">>
K_chunk_id == <<"c", "h", "u", "n", "k", "_", "i", "d">>
K_document_id == <<"d", "o", "c", "u", "m", "e", "n", "t", "_", "i", "d">>
K_document_title == <<"d", "o", "c", "u", "m", "e", "n", "t", "_", "t", "i", "t", "l", "e">>
K_similarity == <<"s", "i", "m", "i", "l", "a", "r", "i", "t", "y">>
K_chunk_index == <<"c", "h", "u", "n", "k", "_", "i", "n", "d", "e", "x">>

\* a float as a value, in units of 0.00001
FloatOf(units) == [kind |-> "float", chars |-> DigitsOf(units), items |-> <<>>]

\* the units of 0.00001 in a number
Units(value) == IF value.kind = "int" THEN IntValue(value) * 100000 ELSE py_int(value.chars)

\* n / unit rounded to the nearest integer, a tie to the even one
Round(n, unit) ==
    LET q == n \div unit
        r == n % unit
    IN IF 2 * r < unit THEN q
       ELSE IF 2 * r > unit THEN q + 1
       ELSE IF q % 2 = 0 THEN q ELSE q + 1

\* the ids of the KnowledgeBase rows
StoredKnowledgeBases == {IntOf(1)}

\* the DocumentChunk rows of the knowledge base in the order the query
\* returns them; the last one has no embedding vector
StoredChunks ==
    << [id |-> 1, document_id |-> 1, content |-> <<"a">>, chunk_index |-> 0, embedded |-> TRUE],
       [id |-> 2, document_id |-> 2, content |-> <<"b">>, chunk_index |-> 1, embedded |-> TRUE],
       [id |-> 3, document_id |-> 1, content |-> <<"c">>, chunk_index |-> 2, embedded |-> FALSE] >>

\* the Document rows: ids and titles
StoredDocuments == [d \in {1} |-> <<"T">>]

\* 'unknown document', the title of a chunk whose document has no row
S_unknown_document == <<"U+672A", "U+77E5", "U+6587", "U+6863">>

\* what the embedding service does: embed_text raises, or returns no
\* vector, or returns a vector with which calculate_similarity gives each
\* chunk a similarity (in units of 0.00001)
EmbedRaises == [raised |-> TRUE, vector |-> FALSE, similarity |-> <<>>]
EmbedNothing == [raised |-> FALSE, vector |-> FALSE, similarity |-> <<>>]
Embedded(similarity) == [raised |-> FALSE, vector |-> TRUE, similarity |-> similarity]

RECURSIVE MatchingAll(_, _, _)
\* a loop that keeps every embedded chunk, whatever its similarity
MatchingAll(embedding, threshold, i) ==
    IF i > Len(StoredChunks) THEN <<>>
    ELSE LET chunk == StoredChunks[i]
         IN IF chunk.embedded
            THEN <<Dict(<<Item(K_chunk_id, IntOf(chunk.id)),
                          Item(K_document_id, IntOf(chunk.document_id)),
                          Item(K_document_title, Str(S_unknown_document)),
                          Item(K_content, Str(chunk.content)),
                          Item(K_similarity, FloatOf(Round(embedding.similarity[i], 10) * 10)),
                          Item(K_chunk_index, IntOf(chunk.chunk_index))>>)>>
                 \o MatchingAll(embedding, threshold, i + 1)
            ELSE MatchingAll(embedding, threshold, i + 1)

RECURSIVE Matching(_, _, _)
\* the loop over the chunks: the results of the chunks from the i-th on
\* whose similarity is at least the threshold
Matching(embedding, threshold, i) ==
    IF i > Len(StoredChunks) THEN <<>>
    ELSE LET chunk == StoredChunks[i]
             similarity == embedding.similarity[i]
         IN IF chunk.embedded /\ similarity >= threshold
            THEN <<Dict(<<Item(K_chunk_id, IntOf(chunk.id)),
                          Item(K_document_id, IntOf(chunk.document_id)),
                          Item(K_document_title,
                               Str(IF chunk.document_id \in DOMAIN StoredDocuments
                                   THEN StoredDocuments[chunk.document_id]
                                   ELSE S_unknown_document)),
                          Item(K_content, Str(chunk.content)),
                          Item(K_similarity, FloatOf(Round(similarity, 10) * 10)),
                          Item(K_chunk_index, IntOf(chunk.chunk_index))>>)>>
                 \o Matching(embedding, threshold, i + 1)
            ELSE Matching(embedding, threshold, i + 1)

\* the similarity of a result, in units of 0.00001
SimilarityOf(result) == Units(DictGet(result, K_similarity))

RECURSIVE sort_reverse(_)
\* results.sort(key=similarity, reverse=True): descending, results of equal
\* similarity in the order they had
sort_reverse(results) ==
    IF results = <<>> THEN <<>>
    ELSE LET rest == sort_reverse(SubSeq(results, 1, Len(results) - 1))
             last == results[Len(results)]
             before == {i \in 0..Len(rest) :
                          \A j \in 1..i : SimilarityOf(rest[j]) >= SimilarityOf(last)}
             k == CHOOSE i \in before : \A j \in before : j <= i
         IN SubSeq(rest, 1, k) \o <<last>> \o SubSeq(rest, k + 1, Len(rest))

\* the part of context_text of the idx-th result
context_part(idx, result) ==
    <<"[">> \o DigitsOf(idx) \o <<"]", " ", "U+6765", "U+81EA", "U+300A">>
    \o DictGet(result, K_document_title).chars
    \o <<"U+300B", "(", "U+76F8", "U+4F3C", "U+5EA6", ":">>
    \o DigitsOf(Round(SimilarityOf(result), 1000)) \o <<"%", ")", ":", "\n">>
    \o DictGet(result, K_content).chars

\* NodeExecutor._execute_knowledge_node(node, context, execution), given what
\* the embedding service does
_execute_knowledge_node(node, context, embedding) ==
    LET config == ConfigOf(node)
        knowledge_base_id == get(config, K_knowledge_base_id, PyNone)
        query == replace(get(config, K_query, Str(<<>>)), context)
        top_k == get(config, K_top_k, IntOf(5))
        similarity_threshold == get(config, K_similarity_threshold, FloatOf(70000))
        results == sort_reverse(Matching(embedding, Units(similarity_threshold), 1))
        top_results == SubSeq(results, 1, SliceIndex(top_k, Len(results), Len(results)))
        context_text == Join([i \in DOMAIN top_results |-> context_part(i, top_results[i])],
                             <<"\n", "\n">>)
    IN IF config.kind # "dict" THEN Raised("AttributeError")
       ELSE IF ~Truthy(knowledge_base_id) THEN Raised("knowledge_base_id required")
       ELSE IF ~Truthy(query) THEN Raised("query required")
       ELSE IF knowledge_base_id \notin StoredKnowledgeBases THEN Raised("knowledge base not found")
       ELSE IF embedding.raised THEN Raised("embedding failed")
       ELSE IF ~embedding.vector THEN Raised("no query vector")
       ELSE IF similarity_threshold.kind \notin {"int", "float"} \/ top_k.kind \notin {"int", "None"}
            THEN Raised("TypeError")
       ELSE Returned(Dict(<<Item(K_results, List(top_results)),
                            Item(K_count, IntOf(Len(top_results))),
                            Item(K_context_text, Str(context_text)),
                            Item(K_query, query)>>))

\* the similarities the service gives a chunk, in units of 0.00001
SimilarityValues == {50000, 70004, 90000}

\* what the embedding service can do
EmbeddingOutcomes ==
    {EmbedRaises, EmbedNothing}
        \cup {Embedded(similarity) : similarity \in [DOMAIN StoredChunks -> SimilarityValues]}

\* the outcomes the handler of a node with a config can have, one for each
\* reply of the provider it calls
Outcomes(node, context) ==
    CASE node.type = "string" -> {_execute_string_node(node, context)}
      [] node.type = "intent" ->
            {_execute_intent_node(node, context, chat) : chat \in ChatOutcomes}
      [] node.type = "http" ->
            {_execute_http_node(node, context, response) : response \in RequestOutcomes}
      [] node.type = "knowledge" ->
            {_execute_knowledge_node(node, context, embedding) :
                embedding \in EmbeddingOutcomes}
      [] OTHER -> {}

\* what execute_node can return for a node, given the context and the ids of
\* the nodes whose outputs it holds, in the order they were stored
HandlerResults(node, context, stored) ==
    IF node.type = "start" THEN {context.input}
    ELSE IF node.type = "end" THEN {CtxRef}
    ELSE IF node.type \notin ProviderKinds THEN {}
    ELSE IF node.data = OpenData THEN HandlerOutputs
    ELSE {o.output : o \in {x \in Outcomes(node, ContextValue(context, stored)) : ~x.raised}}

\* the causes execute_node can fail with for a node
HandlerFailures(node, context, stored) ==
    IF node.type \in {"start", "end"} THEN {}
    ELSE IF node.type \notin ProviderKinds THEN {UnsupportedCause}
    ELSE IF node.data = OpenData THEN Causes
    ELSE {o.cause : o \in {x \in Outcomes(node, ContextValue(context, stored)) : x.raised}}

NodeError(node_id, cause) == [kind |-> "node", node |-> node_id, cause |-> cause]
ValidationError == [kind |-> "validation", node |-> 0, cause |-> "validation failed"]

(* ---------------- state ---------------- *)
VARIABLES
    definition,   \* the definition handed to the validator / sorter
    call,         \* which function has been applied: "none", "validate", "sort"
    vresult,      \* (is_valid, errors, warnings) returned by validate
    order,        \* the list returned by _topological_sort
    workflow,     \* the stored Workflow row
    executions,   \* the stored WorkflowExecution rows, by id
    logs,         \* the stored WorkflowExecutionLog rows of each execution, by timestamp
    run,          \* the execute_workflow call on each execution record
    subst,        \* the call of replace / replace_dict: value, context, outcome
    deleted,      \* whether the Workflow row has been deleted
    response      \* the last request served by the workflow endpoints and its answer

vvars == <<definition, call, vresult, order, subst, deleted, response>>
evars == <<workflow, executions, logs, run>>
vars == <<definition, call, vresult, order, subst, deleted, response,
          workflow, executions, logs, run>>

\* node ids are named in order of first declaration (a definition is equal,
\* up to renaming of ids, to one of this form)
FirstUse(nodes) ==
    \A i \in DOMAIN nodes :
        \A k \in 1..(nodes[i].id - 1) : \E j \in 1..(i - 1) : nodes[j].id = k

NodeSeqs ==
    {ns \in SeqsUpTo([id : NodeIds, type : ValidatorKinds], MaxNodes) : FirstUse(ns)}

EdgeSeqs == SeqsUpTo([source : NodeIds, target : NodeIds], MaxEdges)

NoResult == [is_valid |-> FALSE, errors |-> <<>>, warnings |-> <<>>]

\* the pieces texts are made of: the braces of a placeholder, keys, the dot
Fragments == {<<"{", "{">>, <<"}", "}">>, <<"a">>, <<"b">>, <<".">>}

Texts == {Flatten(fs) : fs \in SeqsUpTo(Fragments, MaxText)}

\* texts with single braces, blanks, an empty path or an empty key
OddTexts ==
    { <<"{", "{", " ", "a", " ", "}", "}">>,
      <<"{", "{", "{", "a", "}", "}">>,
      <<"{", "{", "a", "}", "}", "}">>,
      <<"{", "{", "a", "}", "{", "{", "b", "}", "}">>,
      <<"{", "a", "}">>,
      <<"{", "{", " ", "}", "}">>,
      <<"{", "{", "a", " ", ".", "b", "}", "}">>,
      <<"{", "{", "a", ".", "b", "}", "}", "{", "{", "a", "}", "}", "{", "{", "b", "}", "}">>,
      <<"{", "{", "a", ".", "b", " ", "}", "}", " ", "{", "{", "b", ".", "a", "}", "}">> }

Ka == <<"a">>
Kb == <<"b">>

\* contexts: {}, {a: 'v'}, {a: {b: 'w'}}, {a: 'v', b: {a: 7}}
Contexts ==
    { Dict(<<>>),
      Dict(<<Item(Ka, Str(<<"v">>))>>),
      Dict(<<Item(Ka, Dict(<<Item(Kb, Str(<<"w">>))>>))>>),
      Dict(<<Item(Ka, Str(<<"v">>)), Item(Kb, Dict(<<Item(Ka, Num(<<"7">>))>>))>>) }

Leaves == {Str(<<"{", "{", "a", "}", "}">>), Str(<<"x">>), Num(<<"7">>)}

RECURSIVE Values(_)
\* values nested to a depth: a dict of one item, a list of one or two members
Values(depth) ==
    IF depth = 0 THEN Leaves
    ELSE LET inner == Values(depth - 1)
         IN Leaves
            \cup {Dict(<<Item(<<"k">>, v)>>) : v \in inner}
            \cup {List(<<v>>) : v \in inner}
            \cup {List(<<Num(<<"7">>), v>>) : v \in inner}

\* no request has been served yet
NoResponse == [n |-> 0, user |-> 0, endpoint |-> "none", code |-> 0]

NoSubst == [value |-> Str(<<>>), context |-> Dict(<<>>), raised |-> FALSE,
            result |-> Str(<<>>)]

(* ---------------- the validator and the sorter applied to a definition ---------------- *)
InitValidate ==
    /\ definition = NoneDefinition
    /\ call = "none"
    /\ vresult = NoResult
    /\ order = <<>>
    /\ subst = NoSubst
    /\ deleted = FALSE
    /\ response = NoResponse
    /\ workflow = NewWorkflow(NoneDefinition)
    /\ executions = <<>>
    /\ logs = <<>>
    /\ run = <<>>

\* WorkflowValidator.validate(definition)
ValidateCall(nodes, edges) ==
    /\ call = "none"
    /\ call' = "validate"
    /\ definition' = Def(nodes, edges)
    /\ vresult' = validate(Def(nodes, edges))
    /\ UNCHANGED <<order, subst, evars, deleted, response>>

\* WorkflowEngine._topological_sort(nodes, edges)
SortCall(nodes, edges) ==
    /\ call = "none"
    /\ call' = "sort"
    /\ definition' = Def(nodes, edges)
    /\ order' = _topological_sort(nodes, edges)
    /\ UNCHANGED <<vresult, subst, evars, deleted, response>>

\* the values of a definition that are not a dict with both keys: None, {},
\* and a dict with one of the keys (the other is read with its default [])
PartialDefs ==
    {NoneDefinition, [is_none |-> FALSE, keys |-> {}, nodes |-> <<>>, edges |-> <<>>]}
    \cup {[is_none |-> FALSE, keys |-> {"edges"}, nodes |-> <<>>, edges |-> edges] :
              edges \in EdgeSeqs}
    \cup {[is_none |-> FALSE, keys |-> {"nodes"}, nodes |-> nodes, edges |-> <<>>] :
              nodes \in NodeSeqs}

\* WorkflowValidator.validate(definition) on such a value
ValidatePartial(d) ==
    /\ call = "none"
    /\ call' = "validate"
    /\ definition' = d
    /\ vresult' = validate(d)
    /\ UNCHANGED <<order, subst, evars, deleted, response>>

\* definitions with three edges: a node below a cycle and below a node of
\* in-degree zero; a node released by its second predecessor; a cycle of two
\* nodes with a node below it
SortDefs ==
    { Def(<<[id |-> 1, type |-> "start"], [id |-> 2, type |-> "string"],
            [id |-> 3, type |-> "end"]>>, <<Ed(1, 3), Ed(2, 2), Ed(2, 3)>>),
      Def(<<[id |-> 1, type |-> "start"], [id |-> 2, type |-> "string"],
            [id |-> 3, type |-> "end"]>>, <<Ed(1, 3), Ed(1, 2), Ed(2, 3)>>),
      Def(<<[id |-> 1, type |-> "start"], [id |-> 2, type |-> "string"],
            [id |-> 3, type |-> "end"]>>, <<Ed(1, 2), Ed(2, 1), Ed(2, 3)>>) }

NextValidate ==
    \/ /\ call = "none"
       /\ \E nodes \in NodeSeqs : \E edges \in EdgeSeqs : ValidateCall(nodes, edges)
    \/ /\ call = "none"
       /\ \E d \in PartialDefs : ValidatePartial(d)
    \/ /\ call = "none"
       /\ \E nodes \in NodeSeqs : \E edges \in EdgeSeqs : SortCall(nodes, edges)
    \/ /\ call = "none"
       /\ \E d \in SortDefs : SortCall(d.nodes, d.edges)

SpecValidate == InitValidate /\ [][NextValidate]_vars

(* ---------------- the replacer applied to a value and a context ---------------- *)
\* VariableReplacer.replace(text, context)
ReplaceCall(text, context) ==
    /\ call = "none"
    /\ call' = "replace"
    /\ subst' = [value |-> text, context |-> context, raised |-> FALSE,
                 result |-> replace(text, context)]
    /\ UNCHANGED <<definition, vresult, order, evars, deleted, response>>

\* VariableReplacer.replace_dict(data, context): data.items() raises
\* AttributeError when data is no dict
ReplaceDictCall(data, context) ==
    /\ call = "none"
    /\ call' = "replace_dict"
    /\ IF data.kind = "dict"
       THEN subst' = [value |-> data, context |-> context, raised |-> FALSE,
                      result |-> replace_dict(data, context)]
       ELSE subst' = [value |-> data, context |-> context, raised |-> TRUE,
                      result |-> data]
    /\ UNCHANGED <<definition, vresult, order, evars, deleted, response>>

NextReplace ==
    \/ /\ call = "none"
       /\ \E text \in Texts : \E context \in Contexts : ReplaceCall(Str(text), context)
    \/ /\ call = "none"
       /\ \E text \in OddTexts : \E context \in Contexts : ReplaceCall(Str(text), context)
    \/ /\ call = "none"
       /\ \E data \in Values(MaxDepth) : \E context \in Contexts :
             ReplaceDictCall(data, context)

SpecReplace == InitValidate /\ [][NextReplace]_vars

(* ---------------- the execute endpoint and the engine ---------------- *)
Init ==
    /\ definition = NoneDefinition
    /\ call = "none"
    /\ vresult = NoResult
    /\ order = <<>>
    /\ subst = NoSubst
    /\ deleted = FALSE
    /\ response = NoResponse
    /\ workflow \in {NewWorkflow(d) : d \in RunDefs}
    /\ executions = <<>>
    /\ logs = <<>>
    /\ run = <<>>

\* the endpoint adds the PENDING record and calls the engine on it
CreateExecution(input) ==
    /\ executions' = Append(executions, NewExecution(workflow.version, input))
    /\ logs' = Append(logs, <<>>)
    /\ run' = Append(run, [CallFrame(input, 1) EXCEPT !.stamped = workflow.definition])

\* POST /{uuid}/execute: create the PENDING record, then call the engine on it
ApiExecute(input) ==
    /\ Len(executions) < MaxExecs
    /\ workflow.status # "ARCHIVED"
    /\ CreateExecution(input)
    /\ UNCHANGED <<workflow, vvars>>

\* execute_workflow marking the record RUNNING before it validates
EngineStartEager(e) ==
    /\ run[e].pc = "called"
    /\ LET r == validate_workflow(workflow)
           context == [input |-> run[e].input, nodes |-> <<>>]
       IN /\ executions' = [executions EXCEPT ![e].status = "RUNNING",
                                              ![e].started_at = Some(Stamp),
                                              ![e].context = Some(context)]
          /\ IF ~r.is_valid
             THEN run' = [run EXCEPT ![e].pc = "raised",
                                     ![e].raised = Some(ValidationError)]
             ELSE run' = [run EXCEPT ![e].pc = "planning",
                                     ![e].is_valid = TRUE,
                                     ![e].context = context]
    /\ UNCHANGED <<workflow, logs, vvars>>

\* execute_workflow up to the first commit: validate, then mark RUNNING
EngineStart(e) ==
    /\ run[e].pc = "called"
    /\ LET r == validate_workflow(workflow)
           context == [input |-> run[e].input, nodes |-> <<>>]
       IN IF ~r.is_valid
          THEN /\ run' = [run EXCEPT ![e].pc = "raised",
                                     ![e].raised = Some(ValidationError)]
               /\ UNCHANGED executions
          ELSE /\ run' = [run EXCEPT ![e].pc = "planning",
                                     ![e].is_valid = TRUE,
                                     ![e].context = context,
                                     ![e].validated = workflow.definition]
               /\ executions' = [executions EXCEPT ![e].status = "RUNNING",
                                                   ![e].started_at = Some(Stamp),
                                                   ![e].context = Some(context)]
    /\ UNCHANGED <<workflow, logs, vvars>>

\* read the definition and compute the execution order
EnginePlan(e) ==
    /\ run[e].pc = "planning"
    /\ LET nodes == GetNodes(workflow.definition)
           edges == GetEdges(workflow.definition)
       IN run' = [run EXCEPT ![e].pc = "loop",
                             ![e].nodes = nodes,
                             ![e].edges = edges,
                             ![e].execution_order = _topological_sort(nodes, edges),
                             ![e].idx = 1]
    /\ UNCHANGED <<workflow, executions, logs, vvars>>

CurrentNode(e) == NodeById(run[e].nodes, run[e].execution_order[run[e].idx])

\* the keys of context['nodes'] in insertion order
StoredIds(e) == SelectSeq(run[e].invoked, LAMBDA n : n \in DOMAIN run[e].context.nodes)

\* the outputs the handler of the current node can return
ReturnsOf(e) ==
    IF run[e].pc = "handler"
    THEN HandlerResults(CurrentNode(e), run[e].context, StoredIds(e))
    ELSE {}

\* the causes the handler of the current node can raise with
FailuresOf(e) ==
    IF run[e].pc = "handler"
    THEN HandlerFailures(CurrentNode(e), run[e].context, StoredIds(e))
    ELSE {}

\* the loop reaches a node and invokes its handler without a start entry
BeginNodeUnlogged(e) ==
    /\ run[e].pc = "loop"
    /\ run[e].idx <= Len(run[e].execution_order)
    /\ run' = [run EXCEPT ![e].pc = "handler",
                          ![e].invoked = Append(@, CurrentNode(e).id)]
    /\ UNCHANGED <<logs, workflow, executions, vvars>>

\* top of the loop: log the start entry and invoke the node's handler
BeginNode(e) ==
    /\ run[e].pc = "loop"
    /\ run[e].idx <= Len(run[e].execution_order)
    /\ LET node == CurrentNode(e)
       IN /\ logs' = [logs EXCEPT ![e] = Append(@, LogEntry(node, "INFO", "node start", "", Null))]
          /\ run' = [run EXCEPT ![e].pc = "handler",
                                ![e].invoked = Append(@, node.id)]
    /\ UNCHANGED <<workflow, executions, vvars>>

\* the handler returns and its output is logged but not stored in the context
HandlerReturnNoStore(e, output) ==
    /\ run[e].pc = "handler"
    /\ LET node == CurrentNode(e)
       IN /\ output \in HandlerResults(node, run[e].context, StoredIds(e))
          /\ run' = [run EXCEPT ![e].pc = "loop", ![e].idx = @ + 1]
          /\ logs' = [logs EXCEPT ![e] =
                        Append(@, LogEntry(node, "INFO", "node success", "", Some(output)))]
    /\ UNCHANGED <<workflow, executions, vvars>>

\* the handler returns and its output is stored in the context of every run
HandlerReturnShared(e, output) ==
    /\ run[e].pc = "handler"
    /\ LET node == CurrentNode(e)
       IN /\ output \in HandlerResults(node, run[e].context, StoredIds(e))
          /\ run' = [f \in DOMAIN run |->
                        IF f = e
                        THEN [run[f] EXCEPT !.pc = "loop",
                                            !.context.nodes = (node.id :> output) @@ @,
                                            !.idx = @ + 1]
                        ELSE [run[f] EXCEPT !.context.nodes = (node.id :> output) @@ @]]
          /\ logs' = [logs EXCEPT ![e] =
                        Append(@, LogEntry(node, "INFO", "node success", "", Some(output)))]
    /\ UNCHANGED <<workflow, executions, vvars>>

\* the handler returns: store its output in the context, log the success
HandlerReturn(e, output) ==
    /\ run[e].pc = "handler"
    /\ LET node == CurrentNode(e)
       IN /\ output \in HandlerResults(node, run[e].context, StoredIds(e))
          /\ run' = [run EXCEPT ![e].pc = "loop",
                                ![e].context.nodes = (node.id :> output) @@ @,
                                ![e].idx = @ + 1]
          /\ logs' = [logs EXCEPT ![e] =
                        Append(@, LogEntry(node, "INFO", "node success", "", Some(output)))]
    /\ UNCHANGED <<workflow, executions, vvars>>

\* the handler raises and the FAILED record keeps the context of the start
HandlerRaiseKeepsContext(e, cause) ==
    /\ run[e].pc = "handler"
    /\ LET node == CurrentNode(e)
           err == NodeError(node.id, cause)
       IN /\ cause \in HandlerFailures(node, run[e].context, StoredIds(e))
          /\ logs' = [logs EXCEPT ![e] =
                        Append(@, LogEntry(node, "ERROR", "node failed", cause, Null))]
          /\ executions' = [executions EXCEPT ![e].status = "FAILED",
                                              ![e].completed_at = Some(Stamp),
                                              ![e].error_message = Some(err)]
          /\ workflow' = [workflow EXCEPT !.execution_count = @ + 1]
          /\ run' = [run EXCEPT ![e].pc = "raised", ![e].raised = Some(err)]
    /\ UNCHANGED vvars

\* the handler raises, the error is logged and the loop goes on to the next node
HandlerRaiseContinues(e, cause) ==
    /\ run[e].pc = "handler"
    /\ LET node == CurrentNode(e)
       IN /\ cause \in HandlerFailures(node, run[e].context, StoredIds(e))
          /\ logs' = [logs EXCEPT ![e] =
                        Append(@, LogEntry(node, "ERROR", "node failed", cause, Null))]
          /\ run' = [run EXCEPT ![e].pc = "loop", ![e].idx = @ + 1]
    /\ UNCHANGED <<workflow, executions, vvars>>

\* the handler raises and the call ends without a write to the record
HandlerRaiseUnrecorded(e, cause) ==
    /\ run[e].pc = "handler"
    /\ LET node == CurrentNode(e)
           err == NodeError(node.id, cause)
       IN /\ cause \in HandlerFailures(node, run[e].context, StoredIds(e))
          /\ logs' = [logs EXCEPT ![e] =
                        Append(@, LogEntry(node, "ERROR", "node failed", cause, Null))]
          /\ run' = [run EXCEPT ![e].pc = "raised", ![e].raised = Some(err)]
    /\ UNCHANGED <<workflow, executions, vvars>>

\* the handler raises: log the error, leave the loop, mark FAILED, re-raise
HandlerRaise(e, cause) ==
    /\ run[e].pc = "handler"
    /\ LET node == CurrentNode(e)
           err == NodeError(node.id, cause)
       IN /\ cause \in HandlerFailures(node, run[e].context, StoredIds(e))
          /\ logs' = [logs EXCEPT ![e] =
                        Append(@, LogEntry(node, "ERROR", "node failed", cause, Null))]
          /\ executions' = [executions EXCEPT ![e].status = "FAILED",
                                              ![e].completed_at = Some(Stamp),
                                              ![e].error_message = Some(err),
                                              ![e].context = Some(run[e].context)]
          /\ workflow' = [workflow EXCEPT !.execution_count = @ + 1]
          /\ run' = [run EXCEPT ![e].pc = "raised", ![e].raised = Some(err)]
    /\ UNCHANGED vvars

\* the loop is over and the run is counted as executed but not as a success
CompleteNoSuccessCount(e) ==
    /\ run[e].pc = "loop"
    /\ run[e].idx > Len(run[e].execution_order)
    /\ executions' = [executions EXCEPT ![e].status = "COMPLETED",
                                        ![e].completed_at = Some(Stamp),
                                        ![e].context = Some(run[e].context),
                                        ![e].output_data = Some(run[e].context.nodes)]
    /\ workflow' = [workflow EXCEPT !.execution_count = @ + 1]
    /\ run' = [run EXCEPT ![e].pc = "returned"]
    /\ UNCHANGED <<logs, vvars>>

\* the loop is over: mark COMPLETED, count the run, return the output
Complete(e) ==
    /\ run[e].pc = "loop"
    /\ run[e].idx > Len(run[e].execution_order)
    /\ executions' = [executions EXCEPT ![e].status = "COMPLETED",
                                        ![e].completed_at = Some(Stamp),
                                        ![e].context = Some(run[e].context),
                                        ![e].output_data = Some(run[e].context.nodes)]
    /\ workflow' = [workflow EXCEPT !.execution_count = @ + 1,
                                    !.success_count = @ + 1]
    /\ run' = [run EXCEPT ![e].pc = "returned"]
    /\ UNCHANGED <<logs, vvars>>

\* a caller hands a record whose call is over to execute_workflow again
EngineCallAgain(e) ==
    /\ run[e].pc \in {"returned", "raised"}
    /\ run[e].calls < MaxCalls
    /\ run' = [run EXCEPT ![e] = [CallFrame(executions[e].input_data, run[e].calls + 1)
                                      EXCEPT !.stamped = run[e].stamped]]
    /\ UNCHANGED <<workflow, executions, logs, vvars>>

ExecIds == DOMAIN executions

Next ==
    \/ \E input \in Inputs : ApiExecute(input)
    \/ \E e \in ExecIds : EngineStart(e)
    \/ \E e \in ExecIds : EnginePlan(e)
    \/ \E e \in ExecIds : BeginNode(e)
    \/ \E e \in ExecIds : \E output \in ReturnsOf(e) : HandlerReturn(e, output)
    \/ \E e \in ExecIds : \E cause \in FailuresOf(e) : HandlerRaise(e, cause)
    \/ \E e \in ExecIds : Complete(e)

\* every record is executed once, by the endpoint that created it
Spec == Init /\ [][Next]_vars

NextEngine ==
    \/ Next
    \/ \E e \in ExecIds : EngineCallAgain(e)

\* the engine as a library: a caller may call execute_workflow on any record
SpecEngine == Init /\ [][NextEngine]_vars


(* ---------------- runs of workflows whose nodes have a config ---------------- *)
\* start -> the node -> end
Flow(node) == Def(<<N(1, "start"), node, N(3, "end")>>, <<Ed(1, 2), Ed(2, 3)>>)

OneIntent == List(<<Dict(<<Item(K_name, Str(<<"a">>))>>)>>)

\* configs of an intent node: complete; without model_id; with a model id
\* that no row has; with an empty input_text; with no intents
IntentConfigs ==
    { Dict(<<Item(K_model_id, IntOf(1)), Item(K_input_text, Str(<<"h", "i">>)),
             Item(K_intents, OneIntent)>>),
      Dict(<<Item(K_input_text, Str(<<"h", "i">>)), Item(K_intents, OneIntent)>>),
      Dict(<<Item(K_model_id, IntOf(9)), Item(K_input_text, Str(<<"h", "i">>)),
             Item(K_intents, OneIntent)>>),
      Dict(<<Item(K_model_id, IntOf(1)), Item(K_input_text, Str(<<>>)),
             Item(K_intents, OneIntent)>>),
      Dict(<<Item(K_model_id, IntOf(1)), Item(K_input_text, Str(<<"h", "i">>)),
             Item(K_intents, List(<<>>))>>) }

\* the config of a string node that extracts json_path from input_text
Extract(input_text, json_path) ==
    Dict(<<Item(K_operation, Str(S_json_extract)), Item(K_input_text, Str(input_text)),
           Item(K_json_path, Str(json_path))>>)

\* configs of a string node: json_extract with an index out of range, with
\* invalid JSON, with a missing key, with a non-numeric key on a list, with a
\* descent into a scalar, and with a hit; an operation that is not one of
\* the handler's; upper
StringConfigs ==
    { Extract(<<"[", "7", "]">>, <<"1">>),
      Extract(<<"{", "b", "a", "d">>, <<"a">>),
      Extract(<<"{", "\"", "a", "\"", ":", " ", "1", "}">>, <<"b">>),
      Extract(<<"[", "7", "]">>, <<"x">>),
      Extract(<<"7">>, <<"a">>),
      Extract(<<"{", "\"", "a", "\"", ":", " ", "1", "}">>, <<"a">>),
      Dict(<<Item(K_operation, Str(<<"n", "o", "p", "e">>)),
             Item(K_input_text, Str(<<"h", "i">>))>>),
      Dict(<<Item(K_operation, Str(S_upper)), Item(K_input_text, Str(<<"h", "i">>))>>) }

\* configs of an http node: a url; a url and a method that sends a body; an
\* empty url; no url
HttpConfigs ==
    { Dict(<<Item(K_url, Str(<<"h", "t", "t", "p", ":", "/", "/", "a">>))>>),
      Dict(<<Item(K_url, Str(<<"h", "t", "t", "p", ":", "/", "/", "a">>)), Item(K_method, Str(<<"p", "o", "s", "t">>)),
             Item(K_body, Dict(<<Item(<<"q">>, Str(<<"1">>))>>))>>),
      Dict(<<Item(K_url, Str(<<>>))>>),
      Dict(<<Item(K_method, Str(S_GET))>>) }

\* the config of a knowledge node
Retrieve(knowledge_base_id, top_k, similarity_threshold) ==
    Dict(<<Item(K_knowledge_base_id, IntOf(knowledge_base_id)),
           Item(K_query, Str(<<"q">>)), Item(K_top_k, IntOf(top_k)),
           Item(K_similarity_threshold, FloatOf(similarity_threshold))>>)

\* configs of a knowledge node: the defaults of top_k and of the threshold;
\* top_k 1 and 0; a threshold above every similarity; a knowledge base id
\* that no row has; no knowledge base id; an empty query
KnowledgeConfigs ==
    { Dict(<<Item(K_knowledge_base_id, IntOf(1)), Item(K_query, Str(<<"q">>))>>),
      Retrieve(1, 1, 50000),
      Retrieve(1, 0, 50000),
      Retrieve(1, 2, 95000),
      Retrieve(9, 2, 50000),
      Dict(<<Item(K_query, Str(<<"q">>))>>),
      Dict(<<Item(K_knowledge_base_id, IntOf(1)), Item(K_query, Str(<<>>))>>) }

\* definitions of the stored workflow in the runs of nodes with a config
NodeDefs ==
    {Flow(NC(2, "intent", config)) : config \in IntentConfigs}
        \cup {Flow(NC(2, "string", config)) : config \in StringConfigs}
        \cup {Flow(NC(2, "http", config)) : config \in HttpConfigs}
        \cup {Flow(NC(2, "knowledge", config)) : config \in KnowledgeConfigs}

InitNodes ==
    /\ definition = NoneDefinition
    /\ call = "none"
    /\ vresult = NoResult
    /\ order = <<>>
    /\ subst = NoSubst
    /\ deleted = FALSE
    /\ response = NoResponse
    /\ workflow \in {NewWorkflow(d) : d \in NodeDefs}
    /\ executions = <<>>
    /\ logs = <<>>
    /\ run = <<>>

NextNodes ==
    \/ /\ Len(executions) < MaxRuns
       /\ \E input \in Inputs : ApiExecute(input)
    \/ \E e \in ExecIds : EngineStart(e)
    \/ \E e \in ExecIds : EnginePlan(e)
    \/ \E e \in ExecIds : BeginNode(e)
    \/ \E e \in ExecIds : \E output \in ReturnsOf(e) : HandlerReturn(e, output)
    \/ \E e \in ExecIds : \E cause \in FailuresOf(e) : HandlerRaise(e, cause)
    \/ \E e \in ExecIds : Complete(e)

SpecNodes == InitNodes /\ [][NextNodes]_vars

\* the loop of execute_workflow on record e goes on: to the next node's
\* handler, or past the last node
LoopStep(e) ==
    /\ e \in DOMAIN run
    /\ \/ BeginNode(e)
       \/ Complete(e)

\* a call made by execute_workflow on record e comes back: validate_workflow,
\* _topological_sort, or the awaited handler, which returns or raises
CallStep(e) ==
    /\ e \in DOMAIN run
    /\ \/ EngineStart(e)
       \/ EnginePlan(e)
       \/ \E output \in ReturnsOf(e) : HandlerReturn(e, output)
       \/ \E cause \in FailuresOf(e) : HandlerRaise(e, cause)

\* execute_workflow on record e is inside such a call
InCall(e) ==
    /\ e \in DOMAIN run
    /\ run[e].pc \in {"called", "planning", "handler"}

\* one run at a time with its scheduling: the event loop resumes the
\* coroutine of every call that can go on, and every call it makes comes
\* back.  The second condition is weak fairness of CallStep(e) written with
\* its enabling condition InCall(e).
SpecLive ==
    /\ Init /\ [][NextNodes]_vars
    /\ \A e \in 1..MaxRuns :
          /\ WF_vars(LoopStep(e))
          /\ ([]<>~InCall(e)) \/ ([]<><<CallStep(e)>>_vars)

(* ---------------- runs served by sessions of their own ---------------- *)
\* what the session of a run reads of the workflow row when the run reads a
\* counter: every run has a session of its own and the store takes no lock
SessionCounters(wf) ==
    [execution_count |-> wf.execution_count, success_count |-> wf.success_count]

\* the loop is over: workflow.execution_count += 1 and workflow.success_count
\* += 1 read the counters and raise them on the session's object
CompleteRead(e) ==
    /\ run[e].pc = "loop"
    /\ run[e].idx > Len(run[e].execution_order)
    /\ run' = [run EXCEPT ![e].pc = "completing",
                          ![e].seen = SessionCounters(workflow)]
    /\ UNCHANGED <<workflow, executions, logs, vvars>>

\* db.commit() after the loop: the record goes COMPLETED and the row gets
\* the counters of the session's object
CompleteCommit(e) ==
    /\ run[e].pc = "completing"
    /\ executions' = [executions EXCEPT ![e].status = "COMPLETED",
                                        ![e].completed_at = Some(Stamp),
                                        ![e].context = Some(run[e].context),
                                        ![e].output_data = Some(run[e].context.nodes)]
    /\ workflow' = [workflow EXCEPT !.execution_count = run[e].seen.execution_count + 1,
                                    !.success_count = run[e].seen.success_count + 1]
    /\ run' = [run EXCEPT ![e].pc = "returned"]
    /\ UNCHANGED <<logs, vvars>>

\* the handler raises: log the error, leave the loop; in the except block
\* workflow.execution_count += 1 reads the counter and raises it on the
\* session's object
RaiseRead(e, cause) ==
    /\ run[e].pc = "handler"
    /\ LET node == CurrentNode(e)
       IN /\ cause \in HandlerFailures(node, run[e].context, StoredIds(e))
          /\ logs' = [logs EXCEPT ![e] =
                        Append(@, LogEntry(node, "ERROR", "node failed", cause, Null))]
          /\ run' = [run EXCEPT ![e].pc = "failing",
                                ![e].raised = Some(NodeError(node.id, cause)),
                                ![e].seen = SessionCounters(workflow)]
    /\ UNCHANGED <<workflow, executions, vvars>>

\* db.commit() of the except block: the record goes FAILED and the row gets
\* the execution_count of the session's object; the error is re-raised
RaiseCommit(e) ==
    /\ run[e].pc = "failing"
    /\ executions' = [executions EXCEPT ![e].status = "FAILED",
                                        ![e].completed_at = Some(Stamp),
                                        ![e].error_message = run[e].raised,
                                        ![e].context = Some(run[e].context)]
    /\ workflow' = [workflow EXCEPT !.execution_count = run[e].seen.execution_count + 1]
    /\ run' = [run EXCEPT ![e].pc = "raised"]
    /\ UNCHANGED <<logs, vvars>>

NextStore ==
    \/ \E input \in Inputs : ApiExecute(input)
    \/ \E e \in ExecIds : EngineStart(e)
    \/ \E e \in ExecIds : EnginePlan(e)
    \/ \E e \in ExecIds : BeginNode(e)
    \/ \E e \in ExecIds : \E output \in ReturnsOf(e) : HandlerReturn(e, output)
    \/ \E e \in ExecIds : \E cause \in FailuresOf(e) : RaiseRead(e, cause)
    \/ \E e \in ExecIds : RaiseCommit(e)
    \/ \E e \in ExecIds : CompleteRead(e)
    \/ \E e \in ExecIds : CompleteCommit(e)

\* concurrent runs of one workflow, each served with a session of its own:
\* a run's reading of a counter and its commit are two steps
SpecStore == Init /\ [][NextStore]_vars

(* ---------------- the stored workflow is updated ---------------- *)
\* the values of WorkflowStatus
WorkflowStatuses == {"DRAFT", "PUBLISHED", "ARCHIVED"}

\* the definitions an update carries
UpdateDefs ==
    { Def(<<N(1, "start"), N(2, "string"), N(3, "end")>>, <<Ed(1, 2), Ed(2, 3)>>),
      Def(<<N(1, "start"), N(2, "end")>>, <<Ed(1, 2)>>) }

\* PUT /{uuid} with the version raised whatever the update carries
update_workflow_always(d, status) ==
    /\ workflow.version < MaxVersion
    /\ workflow' = [workflow EXCEPT !.definition = IF d = NoneDefinition THEN @ ELSE d,
                                    !.version = @ + 1,
                                    !.status = IF status = "none" THEN @ ELSE status]
    /\ UNCHANGED <<executions, logs, run, vvars>>

\* PUT /{uuid}: update_workflow with a definition (NoneDefinition: the
\* update carries none) and a status ("none": the update carries none)
update_workflow(d, status) ==
    /\ workflow.version < MaxVersion
    /\ workflow' = [workflow EXCEPT !.definition = IF d = NoneDefinition THEN @ ELSE d,
                                    !.version = IF d = NoneDefinition THEN @ ELSE @ + 1,
                                    !.status = IF status = "none" THEN @ ELSE status]
    /\ UNCHANGED <<executions, logs, run, vvars>>

InitApi ==
    /\ definition = NoneDefinition
    /\ call = "none"
    /\ vresult = NoResult
    /\ order = <<>>
    /\ subst = NoSubst
    /\ deleted = FALSE
    /\ response = NoResponse
    /\ workflow \in {NewWorkflow(d) : d \in UpdateDefs}
    /\ executions = <<>>
    /\ logs = <<>>
    /\ run = <<>>

\* an update publishes the workflow or leaves its status; the status decides
\* nothing in these steps
NextApi ==
    \/ NextNodes
    \/ \E d \in UpdateDefs \cup {NoneDefinition} :
          \E status \in {"PUBLISHED", "none"} : update_workflow(d, status)

\* the endpoints that execute and update a workflow
SpecApi == InitApi /\ [][NextApi]_vars

(* ---------------- the endpoints and their callers ---------------- *)
\* the callers: the owner of the workflow, a platform administrator, and a
\* user who is neither
Owner == [id |-> OwnerId, role |-> "student"]
Admin == [id |-> 2, role |-> "platform_admin"]
Stranger == [id |-> 3, role |-> "student"]
Users == {Owner, Admin, Stranger}

\* a permission check that forgets require_owner
check_workflow_permission_lax(wf, user, require_owner) ==
    IF user.role = "platform_admin" THEN TRUE
    ELSE IF wf.user_id = user.id THEN TRUE
    ELSE IF wf.status = "PUBLISHED" THEN TRUE
    ELSE FALSE

check_workflow_permission(wf, user, require_owner) ==
    IF user.role = "platform_admin" THEN TRUE
    ELSE IF wf.user_id = user.id THEN TRUE
    ELSE IF require_owner THEN FALSE
    ELSE IF wf.status = "PUBLISHED" THEN TRUE
    ELSE FALSE

\* the answer to the next request: its number, its caller, the endpoint and
\* the HTTP status code (0 for an execute request whose run has begun)
Answer(user, endpoint, code) ==
    [n |-> response.n + 1, user |-> user.id, endpoint |-> endpoint, code |-> code]

\* the first answer the endpoints share: 404 without the row, 403 without
\* the permission, else 0 (the endpoint goes on)
Refusal(user, require_owner) ==
    IF deleted THEN 404
    ELSE IF ~check_workflow_permission(workflow, user, require_owner) THEN 403
    ELSE 0

\* GET /{uuid}
get_workflow(user) ==
    /\ response' = Answer(user, "get", IF Refusal(user, FALSE) # 0
                                       THEN Refusal(user, FALSE) ELSE 200)
    /\ UNCHANGED <<definition, call, vresult, order, subst, deleted, evars>>

\* POST /{uuid}/validate
api_validate_workflow(user) ==
    /\ IF Refusal(user, FALSE) # 0
       THEN /\ response' = Answer(user, "validate", Refusal(user, FALSE))
            /\ UNCHANGED vresult
       ELSE /\ response' = Answer(user, "validate", 200)
            /\ vresult' = validate_workflow(workflow)
    /\ UNCHANGED <<definition, call, order, subst, deleted, evars>>

\* PUT /{uuid} with a definition (NoneDefinition: none) and a status
\* ("none": none)
api_update_workflow(user, d, status) ==
    /\ workflow.version < MaxVersion
    /\ IF Refusal(user, TRUE) # 0
       THEN /\ response' = Answer(user, "update", Refusal(user, TRUE))
            /\ UNCHANGED workflow
       ELSE /\ response' = Answer(user, "update", 200)
            /\ workflow' = [workflow EXCEPT
                               !.definition = IF d = NoneDefinition THEN @ ELSE d,
                               !.version = IF d = NoneDefinition THEN @ ELSE @ + 1,
                               !.status = IF status = "none" THEN @ ELSE status]
    /\ UNCHANGED <<definition, call, vresult, order, subst, deleted, executions, logs, run>>

\* DELETE /{uuid}, requested while no run is going on
delete_workflow(user) ==
    /\ \A e \in DOMAIN run : run[e].pc \in {"returned", "raised"}
    /\ IF Refusal(user, TRUE) # 0
       THEN /\ response' = Answer(user, "delete", Refusal(user, TRUE))
            /\ UNCHANGED deleted
       ELSE /\ response' = Answer(user, "delete", 200)
            /\ deleted' = TRUE
    /\ UNCHANGED <<definition, call, vresult, order, subst, evars>>

\* POST /{uuid}/execute up to the call of the engine
api_execute_workflow(user, input) ==
    /\ Len(executions) < MaxRuns
    /\ IF Refusal(user, FALSE) # 0
       THEN /\ response' = Answer(user, "execute", Refusal(user, FALSE))
            /\ UNCHANGED <<executions, logs, run>>
       ELSE IF workflow.status = "ARCHIVED"
            THEN /\ response' = Answer(user, "execute", 400)
                 /\ UNCHANGED <<executions, logs, run>>
            ELSE /\ response' = Answer(user, "execute", 0)
                 /\ CreateExecution(input)
    /\ UNCHANGED <<definition, call, vresult, order, subst, deleted, workflow>>

\* the definitions and statuses an update of the model carries
Updates ==
    {<<d, "none">> : d \in {Def(<<N(1, "start"), N(2, "end")>>, <<Ed(1, 2)>>)}}
        \cup {<<NoneDefinition, status>> : status \in WorkflowStatuses}

InitAuth ==
    /\ definition = NoneDefinition
    /\ call = "none"
    /\ vresult = NoResult
    /\ order = <<>>
    /\ subst = NoSubst
    /\ deleted = FALSE
    /\ response = NoResponse
    /\ workflow = NewWorkflow(Def(<<N(1, "start"), N(2, "string")>>, <<Ed(1, 2)>>))
    /\ executions = <<>>
    /\ logs = <<>>
    /\ run = <<>>

NextAuth ==
    \/ /\ response.n < MaxRequests
       /\ \E user \in Users : get_workflow(user)
    \/ /\ response.n < MaxRequests
       /\ \E user \in Users : api_validate_workflow(user)
    \/ /\ response.n < MaxRequests
       /\ \E user \in Users : \E u \in Updates : api_update_workflow(user, u[1], u[2])
    \/ /\ response.n < MaxRequests
       /\ \E user \in Users : delete_workflow(user)
    \/ /\ response.n < MaxRequests
       /\ \E user \in Users : api_execute_workflow(user, Data("x1"))
    \/ \E e \in ExecIds : EngineStart(e)
    \/ \E e \in ExecIds : EnginePlan(e)
    \/ \E e \in ExecIds : BeginNode(e)
    \/ \E e \in ExecIds : \E output \in ReturnsOf(e) : HandlerReturn(e, output)
    \/ \E e \in ExecIds : \E cause \in FailuresOf(e) : HandlerRaise(e, cause)
    \/ \E e \in ExecIds : Complete(e)

\* requests of the three callers to the endpoints of one workflow
SpecAuth == InitAuth /\ [][NextAuth]_vars

(* ---------------- graph notions used by the properties ---------------- *)
EdgePairs(edges) == {<<edges[i].source, edges[i].target>> : i \in DOMAIN edges}

RECURSIVE PathWithin(_, _, _, _)
\* a path of 1..k edges of E from u to v
PathWithin(E, u, v, k) ==
    /\ k >= 1
    /\ \/ <<u, v>> \in E
       \/ \E w \in {p[2] : p \in {q \in E : q[1] = u}} : PathWithin(E, w, v, k - 1)

Cyclic(E) == \E p \in E : PathWithin(E, p[1], p[1], Cardinality(E))

DeclaredIds(d) == Range(NodeIdSeq(GetNodes(d)))

\* the edges whose two endpoints are declared nodes
DeclaredPairs(d) ==
    {p \in EdgePairs(GetEdges(d)) : p[1] \in DeclaredIds(d) /\ p[2] \in DeclaredIds(d)}

\* index of the first occurrence of x in s, 0 when absent
Pos(s, x) ==
    IF x \in Range(s) THEN CHOOSE i \in DOMAIN s : s[i] = x /\ \A j \in 1..(i - 1) : s[j] # x
    ELSE 0

StartCount(d) == Cardinality({i \in DOMAIN GetNodes(d) : GetNodes(d)[i].type = "start"})

(* ---------------- properties: _topological_sort ---------------- *)
IsDagOverNodes(d) ==
    /\ EdgePairs(GetEdges(d)) \subseteq DeclaredIds(d) \X DeclaredIds(d)
    /\ ~Cyclic(EdgePairs(GetEdges(d)))

\* C7: for a definition whose edges form a DAG over its nodes, the computed
\* order holds both endpoints of every edge, the source before the target
\* (also when an edge is declared twice).
C7_OrderRespectsEdges ==
    (call = "sort" /\ IsDagOverNodes(definition)) =>
        \A i \in DOMAIN definition.edges :
            LET e == definition.edges[i]
            IN /\ Pos(order, e.source) >= 1
               /\ Pos(order, e.source) < Pos(order, e.target)

\* a DAG with one edge declared twice whose source is declared after its target
C7_Witness ==
    /\ call = "sort"
    /\ IsDagOverNodes(definition)
    /\ Len(definition.edges) = 2
    /\ definition.edges[1] = definition.edges[2]
    /\ \E i, j \in DOMAIN definition.nodes :
          /\ i < j
          /\ definition.nodes[j].id = definition.edges[1].source
          /\ definition.nodes[i].id = definition.edges[1].target
    /\ Pos(order, definition.edges[1].source) < Pos(order, definition.edges[1].target)

(* ---------------- properties: validate ---------------- *)
HasError(err) == err \in Range(vresult.errors)

\* C9 as stated: with at least one node, the acyclicity error is reported (and
\* the definition invalid) exactly when the edges contain a directed cycle.
C9_AsStated ==
    (call = "validate" /\ GetNodes(definition) # <<>>) =>
        /\ Cyclic(EdgePairs(GetEdges(definition))) <=> HasError(ErrCycle)
        /\ Cyclic(EdgePairs(GetEdges(definition))) => ~vresult.is_valid

\* C9 amended: with at least one node, the acyclicity error is reported (and
\* the definition invalid) exactly when the edges between declared nodes
\* contain a directed cycle; with no cycle in the edges it is absent.
C9_CycleAmongDeclared ==
    (call = "validate" /\ GetNodes(definition) # <<>>) =>
        /\ Cyclic(DeclaredPairs(definition)) <=> HasError(ErrCycle)
        /\ Cyclic(DeclaredPairs(definition)) => ~vresult.is_valid
        /\ ~Cyclic(EdgePairs(GetEdges(definition))) => ~HasError(ErrCycle)

\* a cycle that the single start node cannot reach, entered from another node
C9_Witness ==
    /\ call = "validate"
    /\ StartCount(definition) = 1
    /\ \E s, a, b \in DeclaredIds(definition) :
          /\ s # a /\ s # b /\ a # b
          /\ \E i \in DOMAIN definition.nodes :
                definition.nodes[i].id = s /\ definition.nodes[i].type = "start"
          /\ DeclaredPairs(definition) = {<<a, b>>, <<b, b>>}
    /\ HasError(ErrCycle)
    /\ ~vresult.is_valid

\* C10: with at least one node, zero start nodes and two or more start nodes
\* each make the definition invalid with the matching start-node error, and
\* exactly one start node yields no start-node error.
C10_StartCount ==
    (call = "validate" /\ GetNodes(definition) # <<>>) =>
        /\ StartCount(definition) = 0 =>
              ~vresult.is_valid /\ HasError(ErrNoStart) /\ ~HasError(ErrManyStart)
        /\ StartCount(definition) >= 2 =>
              ~vresult.is_valid /\ HasError(ErrManyStart) /\ ~HasError(ErrNoStart)
        /\ StartCount(definition) = 1 =>
              ~HasError(ErrNoStart) /\ ~HasError(ErrManyStart)

\* two start nodes in an otherwise well-formed definition
C10_Witness ==
    /\ call = "validate"
    /\ StartCount(definition) = 2
    /\ vresult.errors = <<ErrManyStart>>

\* no node: the value is None or {}, has no nodes key, or an empty nodes list
ZeroNodes(d) == d.is_none \/ "nodes" \notin d.keys \/ d.nodes = <<>>

\* C11: for a definition with zero nodes (None, {}, no nodes key, or an empty
\* nodes list, whatever its edges) validate returns is_valid = FALSE with
\* exactly one error, the one of the emptiness check that failed, and no
\* warning: no later check has added anything.
C11_ZeroNodes ==
    (call = "validate" /\ ZeroNodes(definition)) =>
        /\ ~vresult.is_valid
        /\ Len(vresult.errors) = 1
        /\ vresult.errors[1] =
              (IF Falsy(definition) THEN ErrEmptyDefinition ELSE ErrNoNodes)
        /\ vresult.warnings = <<>>

\* a dict without a nodes key whose edges are a self-loop and a dangling edge
C11_Witness ==
    /\ call = "validate"
    /\ definition.keys = {"edges"}
    /\ Len(definition.edges) = 2
    /\ definition.edges[1].source = definition.edges[1].target
    /\ definition.edges[2].source # definition.edges[2].target
    /\ vresult.errors = <<ErrNoNodes>>
    /\ vresult.warnings = <<>>

HasWarning(w) == w \in Range(vresult.warnings)

\* the number of entries of s equal to x
Count(s, x) == Cardinality({i \in DOMAIN s : s[i] = x})

\* what a path of edges of E leads to from s, s included
Reach(E, s) == {s} \cup {v \in {p[2] : p \in E} : PathWithin(E, s, v, Cardinality(E))}

\* the id of the first declared start node
FirstStart(d) ==
    LET nodes == GetNodes(d)
    IN nodes[CHOOSE i \in DOMAIN nodes :
                nodes[i].type = "start" /\ \A j \in 1..(i - 1) : nodes[j].type # "start"].id

\* every declared node is reached from the start node along edges that join
\* declared nodes
AllReachable(d) == DeclaredIds(d) \subseteq Reach(DeclaredPairs(d), FirstStart(d))

\* some declared node is reached by no path of edges at all from the start node
SomeUnreachable(d) ==
    \E n \in DeclaredIds(d) : n \notin Reach(EdgePairs(GetEdges(d)), FirstStart(d))

\* C12 as stated: when every node is reachable from the start node along the
\* edges, validate emits no reachability warning, whatever else the definition
\* contains (an edge to an undeclared id, duplicate node ids).
C12_NoWarningWhenReachable ==
    (call = "validate" /\ StartCount(definition) = 1 /\ AllReachable(definition)) =>
        ~HasWarning(WarnUnreachable)

\* C13 as stated: when the definition has a start node and some declared node
\* is not reachable from it, validate emits exactly one reachability warning,
\* whatever other edges exist (also edges to undeclared ids), and is_valid
\* is still decided by the errors alone.
C13_OneWarningWhenUnreachable ==
    (call = "validate" /\ StartCount(definition) = 1 /\ SomeUnreachable(definition)) =>
        /\ Count(vresult.warnings, WarnUnreachable) = 1
        /\ vresult.is_valid <=> (vresult.errors = <<>>)

\* C14: validate returns is_valid = TRUE exactly when the errors list it
\* returns is empty, with or without warnings.
C14_ValidIffNoErrors ==
    call = "validate" => (vresult.is_valid <=> (vresult.errors = <<>>))

\* a valid definition returned with both warnings
C14_Witness ==
    /\ call = "validate"
    /\ vresult.is_valid
    /\ vresult.errors = <<>>
    /\ vresult.warnings = <<WarnNoEnd, WarnUnreachable>>

\* the dangling-reference errors expected for the edges, in edge order
RECURSIVE DanglingErrors(_, _)
DanglingErrors(edges, ids) ==
    IF edges = <<>> THEN <<>>
    ELSE LET rest == DanglingErrors(Front(edges), ids)
             e == Last(edges)
             withSource == IF e.source \in ids THEN rest ELSE Append(rest, ErrSource(e.source))
         IN IF e.target \in ids THEN withSource ELSE Append(withSource, ErrTarget(e.target))

IsDanglingError(err) == err.msg \in {"edge source missing", "edge target missing"}

\* C15: with at least one node, the dangling-reference errors are one per edge
\* endpoint that is no declared node id, each naming that id: their number is
\* the number of dangling endpoints, two for an edge with both endpoints unknown.
C15_DanglingEndpoints ==
    (call = "validate" /\ ~ZeroNodes(definition)) =>
        LET ids == DeclaredIds(definition)
            edges == GetEdges(definition)
            dangling == {<<i, "source">> : i \in {j \in DOMAIN edges : edges[j].source \notin ids}}
                        \cup {<<i, "target">> : i \in {j \in DOMAIN edges : edges[j].target \notin ids}}
        IN /\ SelectSeq(vresult.errors, IsDanglingError) = DanglingErrors(edges, ids)
           /\ Len(SelectSeq(vresult.errors, IsDanglingError)) = Cardinality(dangling)

\* an edge with two unknown endpoints next to an edge with one
C15_Witness ==
    /\ call = "validate"
    /\ ~ZeroNodes(definition)
    /\ \E a, b, c \in NodeIds :
          /\ a # b
          /\ {a, b, c} \cap DeclaredIds(definition) = {c}
          /\ definition.edges = <<Ed(a, b), Ed(c, a)>>
          /\ SelectSeq(vresult.errors, IsDanglingError) = <<ErrSource(a), ErrTarget(b), ErrTarget(a)>>

\* C16 as stated: with at least one node every check is made: errors holds, in
\* check order, the error of each violated check (start count, unique ids,
\* dangling endpoints, acyclicity) and warnings holds each warning that
\* applies (no end node, unreachable nodes), whichever other checks failed.
C16_NoShortCircuit ==
    (call = "validate" /\ ~ZeroNodes(definition)) =>
        LET nodes == GetNodes(definition)
            edges == GetEdges(definition)
        IN /\ vresult.errors =
                 (IF StartCount(definition) = 0 THEN <<ErrNoStart>>
                  ELSE IF StartCount(definition) > 1 THEN <<ErrManyStart>> ELSE <<>>)
                 \o (IF \E i, j \in DOMAIN nodes : i # j /\ nodes[i].id = nodes[j].id
                     THEN <<ErrDupId>> ELSE <<>>)
                 \o DanglingErrors(edges, DeclaredIds(definition))
                 \o (IF Cyclic(DeclaredPairs(definition)) THEN <<ErrCycle>> ELSE <<>>)
           /\ vresult.warnings =
                 (IF \A i \in DOMAIN nodes : nodes[i].type # "end" THEN <<WarnNoEnd>> ELSE <<>>)
                 \o (IF StartCount(definition) >= 1 /\ SomeUnreachable(definition)
                     THEN <<WarnUnreachable>> ELSE <<>>)

(* ---------------- properties: execute_workflow ---------------- *)
NoDup(s) == \A i, j \in DOMAIN s : i # j => s[i] # s[j]
HasErrorEntry(lg) == \E i \in DOMAIN lg : lg[i].level = "ERROR"

\* the output logged in the success entry of a node
LoggedOutputs(lg, node_id) ==
    {lg[i].output_data : i \in {j \in DOMAIN lg :
        lg[j].node_id = node_id /\ lg[j].message = "node success"}}

AllowedStatusSteps ==
    {<<"PENDING", "RUNNING">>, <<"RUNNING", "COMPLETED">>, <<"RUNNING", "FAILED">>}

\* C1 as stated: the status of a record moves only along PENDING->RUNNING,
\* RUNNING->COMPLETED, RUNNING->FAILED; so a terminal status never changes,
\* whatever is called on the record afterwards, and CANCELLED is never set.
C1_StatusLifecycle ==
    [][\A e \in DOMAIN executions :
          executions'[e].status # executions[e].status =>
              <<executions[e].status, executions'[e].status>> \in AllowedStatusSteps]_vars

\* the fields execute_workflow writes are all still unset
Untouched(x) ==
    /\ x.status = "PENDING"
    /\ x.started_at = Null
    /\ x.completed_at = Null
    /\ x.context = Null
    /\ x.output_data = Null
    /\ x.error_message = Null

\* C2: a call for a workflow whose definition fails validation raises the
\* validation error and changes nothing (record still PENDING with its fields
\* unset, no log entry, no handler invoked, counters unchanged); and no record
\* is RUNNING unless the validation made by its call passed.
C2_InvalidChangesNothing ==
    /\ [](\A e \in DOMAIN executions :
            executions[e].status = "RUNNING" => run[e].is_valid)
    /\ [][\A e \in DOMAIN run :
            (/\ run[e].pc = "called"
             /\ run'[e].pc # "called"
             /\ ~validate_workflow(workflow).is_valid)
            => /\ run'[e].pc = "raised"
               /\ run'[e].raised = Some(ValidationError)
               /\ run'[e].invoked = <<>>
               /\ executions' = executions
               /\ Untouched(executions'[e])
               /\ logs' = logs
               /\ logs'[e] = <<>>
               /\ workflow' = workflow]_vars

\* a call rejected for a definition that has nodes and edges (a cycle)
C2_Witness ==
    \E e \in DOMAIN run :
        /\ run[e].pc = "raised"
        /\ run[e].raised = Some(ValidationError)
        /\ ~Falsy(workflow.definition)
        /\ Cyclic(DeclaredPairs(workflow.definition))
        /\ Untouched(executions[e])

\* C3: a run in which every handler succeeded ends COMPLETED with
\* completed_at stamped, output_data = context.nodes holding exactly one entry
\* per invoked node (the output logged for it), and both counters one higher.
C3_SuccessCompletes ==
    [][\A e \in DOMAIN run :
          (/\ run[e].pc \in {"loop", "handler"}
           /\ run'[e].pc \in {"returned", "raised"}
           /\ ~HasErrorEntry(logs'[e]))
          => /\ run'[e].pc = "returned"
             /\ executions'[e].status = "COMPLETED"
             /\ executions'[e].completed_at = Some(Stamp)
             /\ executions'[e].output_data = Some(run'[e].context.nodes)
             /\ DOMAIN run'[e].context.nodes = Range(run'[e].invoked)
             /\ Cardinality(DOMAIN run'[e].context.nodes) = Len(run'[e].invoked)
             /\ \A n \in DOMAIN run'[e].context.nodes :
                   LoggedOutputs(logs'[e], n) = {Some(run'[e].context.nodes[n])}
             /\ workflow'.execution_count = workflow.execution_count + 1
             /\ workflow'.success_count = workflow.success_count + 1]_vars

\* a completed run of three nodes, counted once
C3_Witness ==
    \E e \in DOMAIN run :
        /\ run[e].pc = "returned"
        /\ executions[e].status = "COMPLETED"
        /\ Len(run[e].invoked) = 3
        /\ executions[e].output_data = Some(run[e].context.nodes)
        /\ workflow.success_count = 1

\* C4: when a handler raises, the run ends FAILED with completed_at stamped,
\* error_message carrying the failing node's id and the cause, the persisted
\* context holding exactly the outputs of the nodes completed before (none for
\* the failing node), output_data unset, execution_count one higher,
\* success_count unchanged, and the error re-raised to the caller.
C4_FailureRecorded ==
    [][\A e \in DOMAIN run :
          (run[e].pc = "handler" /\ run'[e].pc \notin {"handler", "loop"})
          => LET failing == Last(run[e].invoked)
                 done == Range(Front(run[e].invoked))
                 x == executions'[e]
             IN /\ x.status = "FAILED"
                /\ x.completed_at = Some(Stamp)
                /\ \E c \in Causes \cup {UnsupportedCause} :
                      /\ x.error_message = Some(NodeError(failing, c))
                      /\ Last(logs'[e]).cause = c
                      /\ run'[e].raised = Some(NodeError(failing, c))
                /\ x.context # Null
                /\ x.context[1].input = run[e].input
                /\ DOMAIN x.context[1].nodes = done
                /\ failing \notin DOMAIN x.context[1].nodes
                /\ \A n \in done : LoggedOutputs(logs[e], n) = {Some(x.context[1].nodes[n])}
                /\ x.output_data = Null
                /\ run'[e].pc = "raised"
                /\ workflow'.execution_count = workflow.execution_count + 1
                /\ workflow'.success_count = workflow.success_count]_vars

\* a run that failed at its second or third node, after storing outputs
C4_Witness ==
    \E e \in DOMAIN run :
        /\ run[e].pc = "raised"
        /\ executions[e].status = "FAILED"
        /\ Len(run[e].invoked) >= 2
        /\ executions[e].context = Some(run[e].context)
        /\ DOMAIN run[e].context.nodes = Range(Front(run[e].invoked))
        /\ executions[e].error_message = Some(NodeError(Last(run[e].invoked), "handler error"))

\* C5 as stated: a run that ended FAILED because a handler raised has
\* error_node_id equal to the failing node's id, and error_node_id is unset in
\* every other state.
C5_ErrorNodeId ==
    \A e \in DOMAIN executions :
        /\ (executions[e].status = "FAILED" /\ HasErrorEntry(logs[e]))
              => executions[e].error_node_id = Some(Last(logs[e]).node_id)
        /\ executions[e].status # "FAILED" => executions[e].error_node_id = Null

\* C6: within one run no handler is invoked twice, and once a handler has
\* raised no handler is invoked any more (no later node, no retry).
C6_FailureIsTerminal ==
    [][\A e \in DOMAIN run :
          /\ NoDup(run'[e].invoked)
          /\ HasErrorEntry(logs[e]) => run'[e].invoked = run[e].invoked]_vars

\* a failed run that leaves nodes of its order without an invocation
C6_Witness ==
    \E e \in DOMAIN run :
        /\ run[e].pc = "raised"
        /\ HasErrorEntry(logs[e])
        /\ Len(run[e].invoked) < Len(run[e].execution_order)
        /\ Len(run[e].invoked) >= 2

\* the edge-predecessors of a node among the declared nodes
Predecessors(d, v) == {p[1] : p \in {q \in DeclaredPairs(d) : q[2] = v}}

\* C8: handlers are invoked in the computed topological order; while the
\* handler of a node runs, context.nodes holds exactly the outputs of the nodes
\* before it in the order (so those of its edge-predecessors); context.nodes
\* changes only when a handler returns, by the one entry of that node.
C8_OrderedExecution ==
    /\ [](\A e \in DOMAIN run :
            run[e].pc \in {"loop", "handler", "returned"} =>
               /\ run[e].execution_order =
                     _topological_sort(GetNodes(workflow.definition), GetEdges(workflow.definition))
               /\ run[e].invoked = SubSeq(run[e].execution_order, 1, Len(run[e].invoked))
               /\ run[e].pc = "handler" =>
                     /\ DOMAIN run[e].context.nodes = Range(Front(run[e].invoked))
                     /\ Predecessors(workflow.definition, Last(run[e].invoked))
                           \subseteq DOMAIN run[e].context.nodes
                     /\ \A n \in DOMAIN run[e].context.nodes :
                           LoggedOutputs(logs[e], n) = {Some(run[e].context.nodes[n])})
    /\ [][\A e \in DOMAIN run :
            run'[e].context.nodes # run[e].context.nodes =>
               /\ run[e].pc = "handler"
               /\ run'[e].pc = "loop"
               /\ Last(run[e].invoked) \notin DOMAIN run[e].context.nodes
               /\ DOMAIN run'[e].context.nodes =
                     DOMAIN run[e].context.nodes \cup {Last(run[e].invoked)}
               /\ \A n \in DOMAIN run[e].context.nodes :
                     run'[e].context.nodes[n] = run[e].context.nodes[n]]_vars

\* the third handler of a run whose order differs from the declaration order
C8_Witness ==
    \E e \in DOMAIN run :
        /\ run[e].pc = "handler"
        /\ Len(run[e].invoked) = 3
        /\ run[e].execution_order # NodeIdSeq(run[e].nodes)
        /\ DOMAIN run[e].context.nodes = Range(Front(run[e].invoked))

\* what a stored node output denotes: the end node's output is the context
\* object, so it denotes the context as it is when the record is read
Denoted(v, context) == IF v = CtxRef THEN context ELSE v

\* C17 as stated: the run of {nodes: [start s, end e], edges: [s -> e]} on an
\* input ends COMPLETED; output_data[s] is the input unchanged; output_data[e]
\* is {input, nodes} with the input of the run and a nodes mapping that holds
\* the entry of s only (the context as it was when the end node ran, without
\* the end node's own entry).
C17_StartEndScenario ==
    \A e \in DOMAIN run :
        (/\ workflow.definition = Def(<<N(1, "start"), N(2, "end")>>, <<Ed(1, 2)>>)
         /\ run[e].pc = "returned")
        => /\ executions[e].status = "COMPLETED"
           /\ executions[e].output_data # Null
           /\ LET out == executions[e].output_data[1]
                  end_output == Denoted(out[2], executions[e].context[1])
              IN /\ DOMAIN out = {1, 2}
                 /\ out[1] = executions[e].input_data
                 /\ out[2] = CtxRef
                 /\ end_output.input = executions[e].input_data
                 /\ DOMAIN end_output.nodes = {1}
                 /\ end_output.nodes[1] = executions[e].input_data

(* ---------------- properties: VariableReplacer ---------------- *)
\* a piece of a template: literal text, or a placeholder with its path of keys
Lit(chars) == [ph |-> FALSE, path |-> <<chars>>]
Ph(path) == [ph |-> TRUE, path |-> path]

Pieces == {Lit(<<"a">>), Lit(<<".">>), Ph(<<Ka>>), Ph(<<Kb>>), Ph(<<Ka, Kb>>), Ph(<<Kb, Ka>>)}

PieceText(p) ==
    IF p.ph THEN <<"{", "{">> \o Join(p.path, <<".">>) \o <<"}", "}">> ELSE p.path[1]

TemplateText(ps) == Flatten([i \in DOMAIN ps |-> PieceText(ps[i])])

TemplateTexts == {TemplateText(ps) : ps \in SeqsUpTo(Pieces, MaxPieces)}

\* the ways a text is made of pieces
PiecesOfText ==
    [t \in TemplateTexts |-> {ps \in SeqsUpTo(Pieces, MaxPieces) : TemplateText(ps) = t}]

RECURSIVE Lookup(_, _)
\* the value a path of keys leads to in a value, Null when a key is missing or
\* the value reached is no mapping
Lookup(value, path) ==
    IF path = <<>> THEN Some(value)
    ELSE IF value.kind = "dict" /\ \E i \in DOMAIN value.items : value.items[i].key = Head(path)
         THEN LET i == CHOOSE j \in DOMAIN value.items : value.items[j].key = Head(path)
              IN Lookup(value.items[i].value, Tail(path))
         ELSE Null

\* what a piece becomes, by itself, under a context
Resolved(p, context) ==
    IF ~p.ph THEN PieceText(p)
    ELSE LET r == Lookup(context, p.path)
         IN IF r = Null THEN PieceText(p)
            ELSE IF r[1].kind = "str" THEN r[1].chars ELSE py_str(r[1])

\* C18: replace does not raise; a placeholder whose path misses a key, or
\* meets a value that is no mapping before its end, stays verbatim, and every
\* placeholder of the text is resolved by itself against the same context
\* (the result is the concatenation of what each piece becomes); with the
\* context {} the result is the text itself, for every text.
C18_LookupMissIsSilent ==
    call = "replace" =>
        /\ ~subst.raised
        /\ subst.context = Dict(<<>>) => subst.result = subst.value
        /\ subst.value.chars \in TemplateTexts =>
              \A ps \in PiecesOfText[subst.value.chars] :
                  subst.result =
                      Str(Flatten([i \in DOMAIN ps |-> Resolved(ps[i], subst.context)]))

\* '{{a.b}}{{a}}{{b}}' under {a: 'v'}: a non-mapping met, a hit, a missing key
C18_Witness ==
    /\ call = "replace"
    /\ subst.context = Dict(<<Item(Ka, Str(<<"v">>))>>)
    /\ subst.value = Str(TemplateText(<<Ph(<<Ka, Kb>>), Ph(<<Ka>>), Ph(<<Kb>>)>>))
    /\ subst.result =
          Str(TemplateText(<<Ph(<<Ka, Kb>>)>>) \o <<"v">> \o TemplateText(<<Ph(<<Kb>>)>>))

RECURSIVE DeepReplace(_, _)
\* a value with the placeholders of every str member resolved, at every depth
DeepReplace(value, context) ==
    CASE value.kind = "str" -> replace(value, context)
      [] value.kind \in {"dict", "list"} ->
            [value EXCEPT !.items =
                [i \in DOMAIN value.items |->
                    Item(value.items[i].key, DeepReplace(value.items[i].value, context))]]
      [] OTHER -> value

\* C19 as stated: for a mapping or a sequence, replace_dict returns the value
\* with the placeholders of every str member resolved at every nesting depth
\* (in nested mappings, in lists inside mappings, in lists inside lists, in a
\* value that is itself a list) and every other member unchanged.
C19_DeepSubstitution ==
    (call = "replace_dict" /\ subst.value.kind \in {"dict", "list"}) =>
        /\ ~subst.raised
        /\ subst.result = DeepReplace(subst.value, subst.context)

(* ---------------- properties: templates in a run ---------------- *)
\* the str under the key 'result' of a node's stored output, Null without one
ResultOf(output) ==
    LET r == Lookup(output, <<K_result>>)
    IN IF r # Null /\ r[1].kind = "str" THEN r ELSE Null

\* C20 as stated: in a run, when the template of a format node is the
\* placeholder {{<node id>.result}} of a node that executed before it and
\* whose output has the key result, the text the node produces is that
\* result's value.
C20_NodeOutputPlaceholder ==
    \A e \in DOMAIN run : \A n, m \in DOMAIN run[e].context.nodes :
        (/\ NodeById(run[e].nodes, n).type = "string"
         /\ get(ConfigOf(NodeById(run[e].nodes, n)), K_operation, PyNone) = Str(S_format)
         /\ get(ConfigOf(NodeById(run[e].nodes, n)), K_template, PyNone) = Str(T_id_result(m))
         /\ Pos(run[e].invoked, m) < Pos(run[e].invoked, n)
         /\ ResultOf(run[e].context.nodes[m]) # Null)
        => ResultOf(run[e].context.nodes[n]) = ResultOf(run[e].context.nodes[m])

(* ---------------- properties: the node handlers in a run ---------------- *)
\* the context value the handlers of a run are handed now
ContextOf(e) == ContextValue(run[e].context, StoredIds(e))

\* the entries of a log that close the attempt of a node of a kind with an error
ErrorEntries(lg, kind) ==
    {i \in DOMAIN lg : lg[i].level = "ERROR" /\ lg[i].node_type = kind}

\* a part of the config an intent node requires is missing: no model_id, or
\* one that names no model; no input_text after substitution; no intents, or
\* an intent without a name
IntentConfigMissing(node, context) ==
    LET config == ConfigOf(node)
    IN \/ ~HasKey(config, K_model_id)
       \/ DictGet(config, K_model_id) \notin StoredModels
       \/ ~HasKey(config, K_input_text)
       \/ replace(DictGet(config, K_input_text), context) \in {Str(<<>>), PyNone}
       \/ ~HasKey(config, K_intents)
       \/ DictGet(config, K_intents).kind # "list"
       \/ DictGet(config, K_intents).items = <<>>
       \/ \E i \in DOMAIN DictGet(config, K_intents).items :
             ~HasKey(DictGet(config, K_intents).items[i].value, K_name)

\* some part of the text is a JSON object
HasJsonObject(s) ==
    \E i, j \in DOMAIN s :
        /\ i < j
        /\ s[i] = "{" /\ s[j] = "}"
        /\ json_loads(SubSeq(s, i, j)).ok

\* C21 as stated: the handler of an intent node raises (and its run fails)
\* only when required config is missing; when the reply of the language
\* model holds no parseable JSON object the output has intent 'unknown' and
\* confidence 0, and when the call of the language model fails the node
\* does not fail either: the run goes on.
C21_IntentDegrades ==
    \A e \in DOMAIN run :
        /\ \A i \in ErrorEntries(logs[e], "intent") :
              IntentConfigMissing(NodeById(run[e].nodes, logs[e][i].node_id), ContextOf(e))
        /\ \A n \in DOMAIN run[e].context.nodes :
              (/\ NodeById(run[e].nodes, n).type = "intent"
               /\ ~HasJsonObject(DictGet(run[e].context.nodes[n], K_raw_response).chars))
              => /\ DictGet(run[e].context.nodes[n], K_intent) = Str(S_unknown)
                 /\ DictGet(run[e].context.nodes[n], K_confidence) = IntOf(0)

\* the operations the handler of a string node recognises
StringOperations ==
    {Str(S_concat), Str(S_replace), Str(S_split), Str(S_extract), Str(S_format),
     Str(S_upper), Str(S_lower), Str(S_trim), Str(S_length), Str(S_substring),
     Str(S_json_extract)}

RECURSIVE PathValue(_, _, _)
\* the value a dotted path denotes in parsed JSON, None on every miss: a
\* missing key, a key that is no number on a list, an index out of range, a
\* descent into a scalar
PathValue(data, keys, i) ==
    IF i > Len(keys) THEN data
    ELSE IF HasKey(data, keys[i]) THEN PathValue(DictGet(data, keys[i]), keys, i + 1)
    ELSE IF data.kind = "list" /\ isdigit(keys[i]) /\ py_int(keys[i]) < Len(data.items)
         THEN PathValue(data.items[py_int(keys[i]) + 1].value, keys, i + 1)
    ELSE PyNone

\* the json_extract nodes of a run whose input_text and json_path are texts
ExtractNodes(e) ==
    {i \in DOMAIN run[e].nodes :
        /\ run[e].nodes[i].type = "string"
        /\ get(ConfigOf(run[e].nodes[i]), K_operation, PyNone) = Str(S_json_extract)
        /\ get(ConfigOf(run[e].nodes[i]), K_input_text, PyNone).kind = "str"
        /\ get(ConfigOf(run[e].nodes[i]), K_json_path, PyNone).kind = "str"}

\* C22 as stated: the handler of a string node raises only for an operation
\* it does not recognise; json_extract never fails its run, and its result
\* is None when input_text is not valid JSON and on every miss of the path.
C22_StringFailsOnlyUnknownOperation ==
    \A e \in DOMAIN run :
        /\ \A i \in ErrorEntries(logs[e], "string") :
              get(ConfigOf(NodeById(run[e].nodes, logs[e][i].node_id)), K_operation, PyNone)
                  \notin StringOperations
        /\ \A i \in ExtractNodes(e) :
              LET node == run[e].nodes[i]
                  text == replace(DictGet(ConfigOf(node), K_input_text), ContextOf(e))
                  data == json_loads(text.chars)
                  keys == str_split(DictGet(ConfigOf(node), K_json_path).chars, <<".">>)
              IN node.id \in DOMAIN run[e].context.nodes
                 => DictGet(run[e].context.nodes[node.id], K_result) =
                        IF data.ok THEN PathValue(data.value, keys, 1) ELSE PyNone

\* the url of an http node is empty after substitution
UrlEmpty(node, context) ==
    ~Truthy(replace(get(ConfigOf(node), K_url, Str(<<>>)), context))

KnowledgeOutputs(e) ==
    {n \in DOMAIN run[e].context.nodes : NodeById(run[e].nodes, n).type = "knowledge"}

\* the results in the output of a node of a run
ResultsOf(e, n) == Elems(DictGet(run[e].context.nodes[n], K_results))

\* C24: in the output of a knowledge node every result is a chunk whose
\* similarity is at least the threshold of the node (the similarity is
\* reported rounded to four places, so it is at least the rounded
\* threshold), the results are in non-increasing order of similarity, there
\* are at most top_k of them, and count is their number; with no result,
\* count is 0 and context_text is empty, and the node has not failed.
C24_KnowledgeResults ==
    \A e \in DOMAIN run : \A n \in KnowledgeOutputs(e) :
        LET config == ConfigOf(NodeById(run[e].nodes, n))
            output == run[e].context.nodes[n]
            results == ResultsOf(e, n)
            threshold == Units(get(config, K_similarity_threshold, FloatOf(70000)))
            top_k == IntValue(get(config, K_top_k, IntOf(5)))
        IN /\ \A i \in DOMAIN results : SimilarityOf(results[i]) >= Round(threshold, 10) * 10
           /\ \A i, j \in DOMAIN results :
                 i < j => SimilarityOf(results[i]) >= SimilarityOf(results[j])
           /\ Len(results) <= top_k
           /\ DictGet(output, K_count) = IntOf(Len(results))
           /\ results = <<>> => DictGet(output, K_context_text) = Str(<<>>)
           /\ \A i \in ErrorEntries(logs[e], "knowledge") : logs[e][i].node_id # n

\* a COMPLETED run whose knowledge node returned two results, the more
\* similar one first although its chunk comes second in the store
C24_Witness ==
    \E e \in DOMAIN run : \E n \in KnowledgeOutputs(e) :
        /\ executions[e].status = "COMPLETED"
        /\ Len(ResultsOf(e, n)) = 2
        /\ DictGet(ResultsOf(e, n)[1], K_chunk_id) = IntOf(2)
        /\ SimilarityOf(ResultsOf(e, n)[1]) > SimilarityOf(ResultsOf(e, n)[2])

\* a COMPLETED run whose knowledge node found no chunk
C24_NoMatchCompleted ==
    \E e \in DOMAIN run : \E n \in KnowledgeOutputs(e) :
        /\ executions[e].status = "COMPLETED"
        /\ ResultsOf(e, n) = <<>>
        /\ DictGet(run[e].context.nodes[n], K_count) = IntOf(0)
        /\ DictGet(run[e].context.nodes[n], K_context_text) = Str(<<>>)

(* ---------------- properties: the log of a run ---------------- *)
\* the entry that closes the attempt of a node: INFO with the output, or ERROR
IsClosing(entry) ==
    \/ entry.level = "INFO" /\ entry.message = "node success" /\ entry.output_data # Null
    \/ entry.level = "ERROR" /\ entry.output_data = Null

\* the entry that opens the attempt of a node
IsStart(entry) ==
    entry.level = "INFO" /\ entry.message = "node start" /\ entry.output_data = Null

\* the positions of the entries of a node in a log
EntriesOf(lg, node_id) == {i \in DOMAIN lg : lg[i].node_id = node_id}

\* C25: the log of a run only grows by appended entries. The entries come in
\* pairs: a start entry of a node, written when its handler is invoked, next
\* to it the one closing entry of that node (INFO with the output, or
\* ERROR), and no node has two pairs; only the node whose handler is running
\* has a start entry without a closing one. A COMPLETED run has exactly two
\* entries per node and no ERROR entry; a FAILED run has exactly one ERROR
\* entry, its last, and that entry names the failing node.
C25_LogMirrorsRun ==
    /\ [][\A e \in DOMAIN logs :
            /\ e \in DOMAIN logs'
            /\ Len(logs'[e]) >= Len(logs[e])
            /\ SubSeq(logs'[e], 1, Len(logs[e])) = logs[e]]_vars
    /\ [](\A e \in DOMAIN run :
            LET lg == logs[e]
            IN /\ \A i \in DOMAIN lg :
                     IF i % 2 = 1
                     THEN /\ IsStart(lg[i])
                          /\ lg[i].node_id = run[e].invoked[(i + 1) \div 2]
                          /\ i = Len(lg) => run[e].pc = "handler"
                     ELSE /\ IsClosing(lg[i])
                          /\ lg[i].node_id = lg[i - 1].node_id
               /\ Len(lg) = IF run[e].pc = "handler" THEN 2 * Len(run[e].invoked) - 1
                            ELSE 2 * Len(run[e].invoked)
               /\ \A i, j \in DOMAIN run[e].invoked :
                     run[e].invoked[i] = run[e].invoked[j] => i = j
               /\ executions[e].status = "COMPLETED" =>
                     /\ \A i \in DOMAIN run[e].nodes :
                           Cardinality(EntriesOf(lg, run[e].nodes[i].id)) = 2
                     /\ \A i \in DOMAIN lg : lg[i].level # "ERROR"
               /\ executions[e].status = "FAILED" =>
                     /\ {i \in DOMAIN lg : lg[i].level = "ERROR"} = {Len(lg)}
                     /\ lg # <<>>
                     /\ executions[e].error_message =
                           Some(NodeError(Last(lg).node_id, Last(lg).cause))
                     /\ Last(lg).node_id = Last(run[e].invoked))

\* a run that failed at its second node: two entries of the first node, the
\* start entry of the second, and the ERROR entry
C25_Witness ==
    \E e \in DOMAIN run :
        /\ executions[e].status = "FAILED"
        /\ Len(logs[e]) = 4
        /\ logs[e][4].level = "ERROR"
        /\ logs[e][2].output_data # Null

(* ---------------- properties: runs side by side ---------------- *)
\* what belongs to a run: its frame, its record and its log
RunState(e) == <<run[e], executions[e], logs[e]>>

\* C26: two runs that interleave do not touch each other: a step changes
\* the frame, the record and the log of one run at most; what a run has
\* (context, execution order, status, output_data, log) is a function of its
\* input and of the results its handlers gave, so two runs with the same
\* input and the same logged results at the same point are equal, however
\* their steps were interleaved; and every output in the context of a run is
\* the output logged by that run for that node, its input is its own.
C26_RunsAreIsolated ==
    /\ [][\A e, f \in DOMAIN run :
            (e # f /\ RunState(e)' # RunState(e)) => RunState(f)' = RunState(f)]_vars
    /\ [](\A e, f \in DOMAIN run :
            (/\ run[e].input = run[f].input
             /\ run[e].pc = run[f].pc
             /\ logs[e] = logs[f])
            => /\ run[e] = run[f]
               /\ executions[e] = executions[f])
    /\ [](\A e \in DOMAIN run :
            run[e].pc \in {"planning", "loop", "handler", "returned"} =>
                  /\ run[e].context.input = run[e].input
                  /\ \A n \in DOMAIN run[e].context.nodes :
                        /\ LoggedOutputs(logs[e], n) # {}
                        /\ LoggedOutputs(logs[e], n) \subseteq {Some(run[e].context.nodes[n])})

\* two runs on different inputs, both inside a handler after storing an output
C26_Witness ==
    \E e, f \in DOMAIN run :
        /\ run[e].input # run[f].input
        /\ run[e].pc = "handler" /\ run[f].pc = "handler"
        /\ run[e].context.nodes # <<>> /\ run[f].context.nodes # <<>>
        /\ run[e].context.nodes[1] # run[f].context.nodes[1]

(* ---------------- properties: versions ---------------- *)
\* C27: the workflow_version of an execution record is the version the
\* workflow has when the record is created and never changes afterwards;
\* update_workflow raises the version by exactly 1 when it carries a
\* definition and leaves it when it carries none; the version changes in no
\* other step, and an update changes no execution record, log or run.
C27_VersionStamp ==
    /\ [][/\ \A e \in DOMAIN executions :
                /\ e \in DOMAIN executions'
                /\ executions'[e].workflow_version = executions[e].workflow_version
          /\ \A e \in DOMAIN executions' \ DOMAIN executions :
                executions'[e].workflow_version = workflow.version
          /\ workflow'.version \in {workflow.version, workflow.version + 1}
          /\ workflow'.definition # workflow.definition =>
                workflow'.version = workflow.version + 1
          /\ workflow'.version # workflow.version =>
                /\ executions' = executions
                /\ logs' = logs
                /\ run' = run]_vars
    /\ [][\A d \in UpdateDefs \cup {NoneDefinition} :
            \A status \in WorkflowStatuses \cup {"none"} :
                update_workflow(d, status) =>
                    /\ workflow'.version =
                          IF d = NoneDefinition THEN workflow.version
                          ELSE workflow.version + 1
                    /\ executions' = executions]_vars

\* a record stamped with version 1 of a workflow that is now at version 2
C27_Witness ==
    \E e \in DOMAIN executions :
        /\ executions[e].workflow_version = 1
        /\ workflow.version = 2
        /\ executions[e].status = "COMPLETED"

(* ---------------- properties: the fields of an execution record ---------------- *)
\* C28 as stated: in every state of an execution record output_data is set
\* only if the status is COMPLETED, error_message only if it is FAILED,
\* started_at exactly when the status is not PENDING, completed_at exactly
\* when it is COMPLETED or FAILED, and from RUNNING on the context is set,
\* with the keys input (the input of the run) and nodes.
C28_RecordFields ==
    \A e \in DOMAIN executions :
        LET x == executions[e]
        IN /\ x.output_data # Null => x.status = "COMPLETED"
           /\ x.error_message # Null => x.status = "FAILED"
           /\ x.started_at # Null <=> x.status # "PENDING"
           /\ x.completed_at # Null <=> x.status \in {"COMPLETED", "FAILED"}
           /\ x.status # "PENDING" =>
                 /\ x.context # Null
                 /\ DOMAIN x.context[1] = {"input", "nodes"}
                 /\ x.context[1].input = x.input_data

(* ---------------- properties: the order of _topological_sort ---------------- *)
\* the positions of the edges that join declared nodes
JoiningEdges(d) ==
    {i \in DOMAIN GetEdges(d) :
        GetEdges(d)[i].source \in DeclaredIds(d) /\ GetEdges(d)[i].target \in DeclaredIds(d)}

\* the declared nodes that no joining edge enters
ZeroInDegree(d) == {v \in DeclaredIds(d) : \A p \in DeclaredPairs(d) : p[2] # v}

\* the greatest member of a non-empty set of numbers
Greatest(S) == CHOOSE x \in S : \A y \in S : y <= x

\* the position in the order of the predecessor of v that is dequeued last
ReleasedAt(d, v) ==
    Greatest({Pos(order, GetEdges(d)[i].source) : i \in {j \in JoiningEdges(d) :
                                                          GetEdges(d)[j].target = v}})

\* the position of the last edge from that predecessor to v
ReleasedBy(d, v) ==
    Greatest({i \in JoiningEdges(d) :
                 /\ GetEdges(d)[i].target = v
                 /\ GetEdges(d)[i].source = order[ReleasedAt(d, v)]})

\* C29: the order is a function of the declaration order of nodes and edges:
\* it begins with the nodes of in-degree zero in the order of their (first)
\* declaration; after them come the other nodes, first in first out: a
\* node released when an earlier member of the order was dequeued comes
\* earlier, and of two nodes released by the same member the one whose
\* releasing edge is declared earlier comes earlier.
C29_OrderIsFifo ==
    call = "sort" =>
        LET d == definition
            zero == ZeroInDegree(d)
            k == Cardinality(zero)
        IN /\ Len(order) >= k
           /\ {order[i] : i \in 1..k} = zero
           /\ \A i, j \in 1..k :
                 i < j => Pos(NodeIdSeq(GetNodes(d)), order[i]) < Pos(NodeIdSeq(GetNodes(d)), order[j])
           /\ \A i \in (k + 1)..Len(order) : ReleasedAt(d, order[i]) \in 1..(i - 1)
           /\ \A i, j \in (k + 1)..Len(order) :
                 i < j =>
                    \/ ReleasedAt(d, order[i]) < ReleasedAt(d, order[j])
                    \/ /\ ReleasedAt(d, order[i]) = ReleasedAt(d, order[j])
                       /\ ReleasedBy(d, order[i]) < ReleasedBy(d, order[j])

\* two nodes released by the same node in the order of its edges, against
\* the order of their declaration
C29_Witness ==
    /\ call = "sort"
    /\ Len(order) = 3
    /\ ZeroInDegree(definition) = {order[1]}
    /\ ReleasedAt(definition, order[2]) = 1
    /\ ReleasedAt(definition, order[3]) = 1
    /\ Pos(NodeIdSeq(GetNodes(definition)), order[3]) < Pos(NodeIdSeq(GetNodes(definition)), order[2])

\* the declared nodes on a cycle of joining edges
CycleNodes(d) ==
    {v \in DeclaredIds(d) :
        PathWithin(DeclaredPairs(d), v, v, Cardinality(DeclaredPairs(d)))}

\* the declared nodes on a cycle or below one
BelowCycle(d) == UNION {Reach(DeclaredPairs(d), c) : c \in CycleNodes(d)}

\* the declared nodes that a path avoiding every node on a cycle reaches from
\* a node of in-degree zero
ReachedOffCycle(d) ==
    LET clean == {p \in DeclaredPairs(d) :
                     p[1] \notin CycleNodes(d) /\ p[2] \notin CycleNodes(d)}
    IN UNION {Reach(clean, r) : r \in ZeroInDegree(d)}

\* C30 as stated: the order holds each id at most once; the nodes on a
\* cycle and the nodes that only a path through a cycle reaches are absent,
\* every other node is present, and the order is consistent with the edges.
C30_AsStated ==
    call = "sort" =>
        /\ NoDup(order)
        /\ Range(order) = ReachedOffCycle(definition)
        /\ \A p \in DeclaredPairs(definition) :
              (p[1] \in Range(order) /\ p[2] \in Range(order))
              => Pos(order, p[1]) < Pos(order, p[2])

\* C30 amended: the order holds each id at most once; a declared node is
\* absent exactly when it lies on a cycle or below one (also when a node of
\* in-degree zero reaches it by another path); every other declared node is
\* present, after all its predecessors.
C30_CycleNodesAbsent ==
    call = "sort" =>
        /\ NoDup(order)
        /\ Range(order) = DeclaredIds(definition) \ BelowCycle(definition)
        /\ \A p \in DeclaredPairs(definition) :
              p[2] \in Range(order)
              => /\ p[1] \in Range(order)
                 /\ Pos(order, p[1]) < Pos(order, p[2])

\* a sort that leaves out a node on a cycle and a node below it and keeps another
C30_Witness ==
    /\ call = "sort"
    /\ Len(order) = 1
    /\ Cardinality(CycleNodes(definition)) = 1
    /\ Cardinality(BelowCycle(definition)) = 2
    /\ Cardinality(DeclaredIds(definition)) = 3

\* the sequence s holds each element of the set S once and nothing else
IsPermutation(s, S) == NoDup(s) /\ Range(s) = S

\* C31: for a definition that passes validation the computed execution order
\* is a permutation of the declared node ids; a COMPLETED run has invoked the
\* handler of every declared node exactly once, also of the nodes that no
\* path from the start node reaches, and output_data has exactly one key per
\* declared node.
C31_OrderIsPermutation ==
    /\ (call = "sort" /\ validate(definition).is_valid)
          => IsPermutation(order, DeclaredIds(definition))
    /\ \A e \in DOMAIN run :
          /\ run[e].pc \in {"loop", "handler", "returned"} =>
                /\ validate(workflow.definition).is_valid
                /\ run[e].nodes = GetNodes(workflow.definition)
                /\ IsPermutation(run[e].execution_order, DeclaredIds(workflow.definition))
                /\ Len(run[e].execution_order) = Len(GetNodes(workflow.definition))
          /\ executions[e].status = "COMPLETED" =>
                /\ IsPermutation(run[e].invoked, DeclaredIds(workflow.definition))
                /\ Len(run[e].invoked) = Len(GetNodes(workflow.definition))
                /\ executions[e].output_data # Null
                /\ DOMAIN executions[e].output_data[1] = DeclaredIds(workflow.definition)

\* a COMPLETED run of a definition with a node that no path from the start
\* node reaches
C31_Witness ==
    \E e \in DOMAIN run :
        /\ executions[e].status = "COMPLETED"
        /\ SomeUnreachable(workflow.definition)
        /\ Len(run[e].invoked) = 2
        /\ DOMAIN executions[e].output_data[1] = DeclaredIds(workflow.definition)

\* the nodes other than the start node that a path of joining edges reaches
\* from the start node
BelowStart(d) == Reach(DeclaredPairs(d), FirstStart(d)) \ {FirstStart(d)}

\* C32 as stated: in every run of a valid definition the start node is the
\* first node whose handler is invoked, and the handler of every other node
\* runs with context.nodes holding the start node's output.
C32_AsStated ==
    \A e \in DOMAIN run :
        (run[e].pc \in {"loop", "handler", "returned"} /\ run[e].invoked # <<>>) =>
            /\ run[e].invoked[1] = FirstStart(workflow.definition)
            /\ (run[e].pc = "handler"
                   /\ Last(run[e].invoked) # FirstStart(workflow.definition))
                  => FirstStart(workflow.definition) \in DOMAIN run[e].context.nodes

\* C32 amended: the handler of a node that a path of edges reaches from the
\* start node runs after the start node's, with context.nodes holding the
\* start node's output, which is the run's input; when every node is
\* reachable from the start node, the start node is the first node invoked.
C32_StartBeforeReachable ==
    \A e \in DOMAIN run :
        (run[e].pc \in {"loop", "handler", "returned"} /\ run[e].invoked # <<>>) =>
            LET d == workflow.definition
                s == FirstStart(d)
            IN /\ AllReachable(d) => run[e].invoked[1] = s
               /\ (run[e].pc = "handler" /\ Last(run[e].invoked) \in BelowStart(d))
                     => /\ s \in Range(Front(run[e].invoked))
                        /\ s \in DOMAIN run[e].context.nodes
                        /\ run[e].context.nodes[s] = run[e].input

\* the handler of the third node of a chain runs with the start node's output
\* in the context
C32_Witness ==
    \E e \in DOMAIN run :
        /\ run[e].pc = "handler"
        /\ Len(run[e].invoked) = 3
        /\ Last(run[e].invoked) \in BelowStart(workflow.definition)
        /\ run[e].invoked[1] = FirstStart(workflow.definition)
        /\ run[e].context.nodes[FirstStart(workflow.definition)] = run[e].input

\* the seven node kinds that execute_node dispatches to a handler
ExecutableKinds == {"start", "end"} \cup ProviderKinds

\* C33: a definition that passes validation contains only nodes of the seven
\* kinds the node executor can run, so no run of a validated definition ends
\* FAILED with an unsupported-node-type error.
C33_OnlyExecutableKinds ==
    \A e \in DOMAIN run :
        /\ run[e].is_valid =>
              \A i \in DOMAIN GetNodes(workflow.definition) :
                  GetNodes(workflow.definition)[i].type \in ExecutableKinds
        /\ executions[e].status = "FAILED" =>
              executions[e].error_message[1].cause # UnsupportedCause

\* C34: every run that enters RUNNING reaches COMPLETED or FAILED; no record
\* returns to PENDING; a run invokes at most one handler per declared node.
C34_RunsTerminate ==
    /\ \A e \in 1..MaxRuns :
          (e \in DOMAIN executions /\ executions[e].status = "RUNNING")
             ~> (e \in DOMAIN executions
                    /\ executions[e].status \in {"COMPLETED", "FAILED"})
    /\ [][\A e \in DOMAIN executions :
             executions[e].status # "PENDING" => executions'[e].status # "PENDING"]_vars
    /\ [](\A e \in DOMAIN run :
             /\ run[e].pc = "handler" => (ReturnsOf(e) # {} \/ FailuresOf(e) # {})
             /\ NoDup(run[e].invoked)
             /\ Range(run[e].invoked) \subseteq DeclaredIds(workflow.definition)
             /\ Len(run[e].invoked) <= Len(GetNodes(workflow.definition)))

\* a run that went RUNNING, invoked two handlers and ended FAILED at the second
C34_Witness ==
    \E e \in DOMAIN run :
        /\ executions[e].status = "FAILED"
        /\ executions[e].started_at # Null
        /\ Len(run[e].invoked) = 2
        /\ run[e].pc = "raised"

\* the records whose status is one of statuses
RecordsIn(statuses) == {e \in DOMAIN executions : executions[e].status \in statuses}

\* C35: execution_count is the number of runs that reached COMPLETED or
\* FAILED and success_count the number that reached COMPLETED, so
\* success_count <= execution_count; neither counter ever decreases; a run
\* rejected by validation changes neither counter.
C35_CountersCountRuns ==
    /\ [](/\ workflow.execution_count = Cardinality(RecordsIn({"COMPLETED", "FAILED"}))
          /\ workflow.success_count = Cardinality(RecordsIn({"COMPLETED"}))
          /\ workflow.success_count <= workflow.execution_count)
    /\ [][/\ workflow'.execution_count >= workflow.execution_count
          /\ workflow'.success_count >= workflow.success_count
          /\ \A e \in DOMAIN run :
                (run[e].pc = "called" /\ ~validate_workflow(workflow).is_valid
                    /\ run'[e] # run[e])
                => /\ run'[e].pc = "raised"
                   /\ workflow' = workflow]_vars

\* two runs one after the other, the first FAILED and the second COMPLETED
C35_Witness ==
    /\ Len(executions) = 2
    /\ executions[1].status = "FAILED"
    /\ executions[2].status = "COMPLETED"
    /\ executions[1].completed_at # Null
    /\ workflow.execution_count = 2
    /\ workflow.success_count = 1

\* every engine call made so far is over
AllCallsOver == \A e \in DOMAIN run : run[e].pc \in {"returned", "raised"}

\* C36: when N concurrent runs of a workflow have all finished,
\* execution_count has grown by N and success_count by the number of runs
\* that ended COMPLETED: no increment is lost.
C36_NoLostIncrement ==
    AllCallsOver =>
        /\ workflow.execution_count = Cardinality(RecordsIn({"COMPLETED", "FAILED"}))
        /\ workflow.success_count = Cardinality(RecordsIn({"COMPLETED"}))

\* C37: the definition whose nodes a run executes is the definition that
\* passed validation at the start of that run, and it is the definition of
\* the workflow version recorded in the execution's workflow_version, also
\* when update_workflow interleaves with the execute request.
C37_RunsValidatedSnapshot ==
    \A e \in DOMAIN run :
        (run[e].is_valid /\ run[e].pc \in {"loop", "handler", "returned", "raised"}) =>
            /\ run[e].nodes = GetNodes(run[e].validated)
            /\ run[e].edges = GetEdges(run[e].validated)
            /\ run[e].validated = run[e].stamped

\* C38: a user who is neither the owner nor a platform_admin never changes or
\* deletes the workflow (the request is rejected with no field changed) and
\* reads, validates or executes it only while its status is PUBLISHED; no
\* user starts an execution of an ARCHIVED workflow; a rejected execute
\* request creates no execution record.
C38_Authorization ==
    [][response'.n # response.n =>
          LET r == response'
              stranger == r.user = Stranger.id
          IN /\ (stranger /\ r.endpoint \in {"update", "delete"}) =>
                   /\ r.code \in {403, 404}
                   /\ ~deleted => r.code = 403
                   /\ workflow' = workflow
                   /\ deleted' = deleted
                   /\ executions' = executions
             /\ (stranger /\ r.endpoint \in {"get", "validate"} /\ r.code = 200) =>
                   workflow.status = "PUBLISHED"
             /\ (stranger /\ r.endpoint = "validate" /\ vresult' # vresult) =>
                   workflow.status = "PUBLISHED"
             /\ (stranger /\ r.endpoint = "execute" /\ r.code = 0) =>
                   workflow.status = "PUBLISHED"
             /\ (r.endpoint = "execute" /\ (workflow.status = "ARCHIVED" \/ r.code # 0)) =>
                   /\ r.code \in {400, 403, 404}
                   /\ executions' = executions
                   /\ logs' = logs
                   /\ run' = run
             /\ (r.endpoint = "execute" /\ r.code = 0) =>
                   Len(executions') = Len(executions) + 1]_vars

\* the third request is an update by the user who is neither owner nor
\* administrator, refused while the workflow is PUBLISHED, after a run of theirs
C38_Witness ==
    /\ response.n = 3
    /\ response.user = Stranger.id
    /\ response.endpoint = "update"
    /\ response.code = 403
    /\ workflow.status = "PUBLISHED"
    /\ Len(executions) = 1

====
